---- MODULE Spec2Model ----
(***************************************************************************)
(* Turn-taking engine of the Luna voice assistant: the streaming wake      *)
(* detector (luna_assistant/wakeword.py), the VAD speech segmenter         *)
(* (luna_assistant/audio.py) and the dialogue session loop                 *)
(* (app/assistant.py), each as a state machine over the same variables.    *)
(*                                                                         *)
(* The specifications of the module:                                       *)
(*   SpecSeg    one record_until_vad_end call after another, frame by frame*)
(*   SpecReplay two record_until_vad_end calls over the same frame source  *)
(*   SpecWake   one WakeWord.wait call after another, block by block       *)
(*   SpecBoot   LunaAssistant.__init__ over every environment value        *)
(*   Spec       LunaAssistant.__init__ and LunaAssistant.run               *)
(*   FairSpec   LunaAssistant.run with captures that take time             *)
(*   SpecStore  the operations of a MemoryStore on table memories          *)
(*   SpecStoreRead  the same with get_pinned_memories and its cache        *)
(*   SpecSimple run() of luna_assistant/assistant.py                       *)
(*   SpecKb     ingest_text, rebuild_index and retrieve of a KnowledgeBase *)
(* Times are integers: milliseconds in SpecSeg and SpecWake, seconds in    *)
(* Spec.  Texts are sequences of one-character strings.                    *)
(***************************************************************************)
EXTENDS Integers, Sequences, FiniteSets, TLC

VARIABLES
    \* ---- AudioIO.record_until_vad_end (locals of one call)
    seg_pc,           \* "idle" | "loop" | "done" | "raised"
    cfg,              \* the call's arguments
    stream,           \* the full frames read so far in this call: [v, a]
    ring,             \* pre-roll ring: indices into stream
    captured,         \* captured frames: indices into stream
    speech_started,
    speech_frames,
    silence_frames,
    elapsed,          \* time.time() - t0, in ms
    p_rec,            \* the call's arecord process: "none" | "alive" | "reaped"
    seg_end,          \* how the loop ended: "none" | "cap" | "short" | "silence" | "error"
    seg_result,       \* "none" | "true" | "false" | "ValueError" | "VadError"
    wav_written,      \* sf.write(out_wav, ...) was executed by this call
    source,           \* replay: the finite frame stream at the capture device
    prev,             \* replay: how the call before this one ended
    \* ---- WakeWord.wait / WakeWord._wait_openwakeword
    wk_pc,            \* "idle" | "listening" | "running" | "returned" | "raised"
    wake_mode,        \* WakeWord.mode
    p_wake,           \* the call's arecord process: "none" | "alive" | "killed" | "reaped"
    last_fire,        \* local of _wait_openwakeword, ms
    wclock,           \* time.time(), ms
    fires,            \* the times at which a wait() returned True, oldest first
    wk_result,        \* "none" | "woke" | "quit" | "FileNotFoundError" | "ValueError" | "EOFError"
    wk_score,         \* score of the last full block of this call, in hundredths; -1 before it
    wk_line,          \* mode "keyboard": the line input() returned to this call
    wk_rcs,           \* mode "cmd": the exit codes of this call's invocations, oldest first
    wk_eof,           \* mode "openwakeword": p.stdout is at its end, every read returns b""
    wk_short,         \* mode "openwakeword": reads of this call that gave less than a block
    \* ---- the operating system
    live,             \* number of arecord processes alive
    \* ---- Config, LunaAssistant.__init__ and LunaAssistant.run
    pc,               \* where the program is
    error,            \* the exception that ended the program, or "none"
    env_awake,        \* environment: AWAKE_WINDOW_S
    warm_failed,      \* the warmups of __init__ that raised: subset of {"asr", "tts", "llm"}
    turns,            \* MemoryStore: the command texts of the rows of table turns, oldest first
    cfg_awake,        \* Config.awake_window_s, s
    wake_phrase,      \* Config.wake_phrase
    awake_window_s,   \* LunaAssistant.awake_window_s, s
    now,              \* time.monotonic(), s
    last_luna_cmd_ts,
    free_commands_left,
    raw_text,
    stripped,
    starts_with_luna,
    site,             \* the speak() call being executed: "ack" | "none_stored" | "listing" | "reply"
    calls,            \* the collaborator calls of the current turn, in order
    turn,             \* bookkeeping of the current turn and session, for the properties
    \* ---- LunaAssistant.run of luna_assistant/assistant.py: its two other locals
    deadline,
    first_command_free,
    \* ---- MemoryStore (table memories)
    memories,         \* the rows: [id, k, v, pinned, created_at]
    next_id,          \* the id AUTOINCREMENT gives the next inserted row
    st_clock,         \* time.time(), in steps
    st_writes,        \* number of upsert_memory calls made so far
    keep_latest,      \* MemoryStore.keep_latest
    st_op,            \* the last write: [op, key, value, pinned, deleted]
    pinned_cache,     \* _pinned_cache_rows (some: it is not None) and _pinned_cache_ts
    st_reads,         \* number of get_pinned_memories calls made so far
    st_read,          \* the last get_pinned_memories call: [limit, rows, cached]
    \* ---- KnowledgeBase (tables docs and chunks, and the index in memory)
    kb_docs,          \* the ids of table docs
    kb_chunks,        \* the rows of table chunks: [id, doc_id, chunk_index, text]
    kb_next_id,       \* the id AUTOINCREMENT gives the next inserted chunk
    kb_bm25,          \* self._bm25 is set (not None)
    kb_chunk_rows,    \* self._chunk_rows
    kb_ops,           \* number of calls made so far
    kb_last           \* the last call: [op, searched]

segVars == <<seg_pc, cfg, stream, ring, captured, speech_started, speech_frames,
             silence_frames, elapsed, p_rec, seg_end, seg_result, wav_written,
             source, prev>>

wakeVars == <<wk_pc, wake_mode, p_wake, last_fire, wclock, fires, wk_result,
              wk_score, wk_line, wk_rcs, wk_eof, wk_short>>

runVars == <<pc, error, env_awake, warm_failed, turns, cfg_awake, wake_phrase, awake_window_s, now,
             last_luna_cmd_ts, free_commands_left, raw_text, stripped,
             starts_with_luna, site, calls, turn>>

storeVars == <<memories, next_id, st_clock, st_writes, keep_latest, st_op,
               pinned_cache, st_reads, st_read>>

kbVars == <<kb_docs, kb_chunks, kb_next_id, kb_bm25, kb_chunk_rows, kb_ops, kb_last>>

simpleVars == <<deadline, first_command_free>>

vars == <<segVars, wakeVars, live, runVars, simpleVars, storeVars, kbVars>>

\* what a step of the segmenter, of the wake detector, or of run() leaves alone
notSeg == <<wakeVars, runVars, simpleVars, storeVars, kbVars>>
notWake == <<segVars, runVars, simpleVars, storeVars, kbVars>>
notRun == <<seg_pc, cfg, stream, ring, captured, speech_started, speech_frames,
            silence_frames, elapsed, seg_end, seg_result, wav_written, source, prev,
            wk_pc, last_fire, wclock, fires, wk_result, wk_score, wk_line, wk_rcs,
            wk_eof, wk_short, simpleVars, storeVars, kbVars>>
notStore == <<segVars, wakeVars, live, runVars, simpleVars, kbVars>>
notKb == <<segVars, wakeVars, live, runVars, simpleVars, storeVars>>
\* what a step of run() of luna_assistant/assistant.py leaves alone
notSimple == <<seg_pc, cfg, stream, ring, captured, speech_started, speech_frames,
               silence_frames, elapsed, seg_end, seg_result, wav_written, source, prev,
               wk_pc, last_fire, wclock, fires, wk_result, wk_score, wk_line, wk_rcs,
               wk_eof, wk_short, storeVars, kbVars>>

Max(a, b) == IF a >= b THEN a ELSE b

Range(s) == {s[i] : i \in 1..Len(s)}

(***************************************************************************)
(* Bounds of the model.                                                    *)
(***************************************************************************)
\* frames one capture call may read before its source is exhausted
MaxFrames == 5
\* wake firings recorded in one run
MaxFires == 3
\* reads of less than a block counted in one wait() call
MaxShortReads == 3
\* get_pinned_memories calls made on one store
MaxReads == 2
\* calls made on one KnowledgeBase
MaxKbOps == 4
\* invocations of the external command in one wait() call
MaxRuns == 3
\* time.time() when the program starts, and how long the run is followed, ms
StartClock == 5000
MaxWakeMs == 1600
\* resolution of the clock of run(), s, and how long a run is followed, s
Tick == 60
MaxNow == 420
\* rows of table turns
MaxLogged == 2
\* calls of upsert_memory on one store
MaxWrites == 3

(***************************************************************************)
(* Texts: sequences of one-character strings, with the str methods used.   *)
(***************************************************************************)
UpperLetters ==
    <<"A", "B", "C", "D", "E", "F", "G", "H", "I", "J", "K", "L", "M",
      "N", "O", "P", "Q", "R", "S", "T", "U", "V", "W", "X", "Y", "Z">>

LowerLetters ==
    <<"a", "b", "c", "d", "e", "f", "g", "h", "i", "j", "k", "l", "m",
      "n", "o", "p", "q", "r", "s", "t", "u", "v", "w", "x", "y", "z">>

LowerOf == [c \in Range(UpperLetters) |->
                LowerLetters[CHOOSE i \in 1..26 : UpperLetters[i] = c]]

LowerChar(c) == IF c \in DOMAIN LowerOf THEN LowerOf[c] ELSE c

\* str.lower()
LowerStr(t) == [i \in 1..Len(t) |-> LowerChar(t[i])]

\* the characters str.strip() removes, among those of the texts used
Whitespace == {" ", "\t", "\r", "\n"}

\* the characters of lstrip(" \t\r\n,.:;!?-")
LeadingNoise == {" ", "\t", "\r", "\n", ",", ".", ":", ";", "!", "?", "-"}

RECURSIVE LStrip(_, _)
LStrip(t, cs) ==
    IF t # <<>> /\ Head(t) \in cs THEN LStrip(Tail(t), cs) ELSE t

RECURSIVE RStrip(_, _)
RStrip(t, cs) ==
    IF t # <<>> /\ t[Len(t)] \in cs THEN RStrip(SubSeq(t, 1, Len(t) - 1), cs) ELSE t

\* str.strip()
Strip(t) == RStrip(LStrip(t, Whitespace), Whitespace)

\* str.startswith
StartsWith(t, pre) == Len(t) >= Len(pre) /\ SubSeq(t, 1, Len(pre)) = pre

\* sub in t
Contains(t, sub) ==
    \E i \in 0..(Len(t) - Len(sub)) : SubSeq(t, i + 1, i + Len(sub)) = sub

DigitChars == <<"0", "1", "2", "3", "4", "5", "6", "7", "8", "9">>

IsDigit(c) == \E i \in 1..10 : DigitChars[i] = c

DigitVal(c) == (CHOOSE i \in 1..10 : DigitChars[i] = c) - 1

RECURSIVE DigitsVal(_)
DigitsVal(t) ==
    IF t = <<>> THEN 0 ELSE 10 * DigitsVal(SubSeq(t, 1, Len(t) - 1)) + DigitVal(t[Len(t)])

\* float(t) for the decimal notation sign? digits (. digits)?; anything else
\* raises ValueError.  The value is in whole seconds: the texts parsed have no
\* fractional part other than 0.
ParseFloat(t) ==
    LET u    == Strip(t)
        neg  == u # <<>> /\ Head(u) = "-"
        body == IF u # <<>> /\ Head(u) \in {"-", "+"} THEN Tail(u) ELSE u
        dot  == IF \E i \in 1..Len(body) : body[i] = "."
                THEN CHOOSE i \in 1..Len(body) :
                        body[i] = "." /\ \A j \in 1..(i - 1) : body[j] # "."
                ELSE Len(body) + 1
        ip   == SubSeq(body, 1, dot - 1)
        fp   == SubSeq(body, dot + 1, Len(body))
        ok   == /\ Len(ip) + Len(fp) > 0
                /\ \A i \in 1..Len(ip) : IsDigit(ip[i])
                /\ \A i \in 1..Len(fp) : IsDigit(fp[i])
    IN  IF ok THEN [ok |-> TRUE, val |-> IF neg THEN 0 - DigitsVal(ip) ELSE DigitsVal(ip)]
        ELSE [ok |-> FALSE, val |-> 0]

\* "luna"
T_Luna == <<"l", "u", "n", "a">>

\* "Ok Luna"
T_OkLuna == <<"O", "k", " ", "L", "u", "n", "a">>

\* "luna is listening"
T_LunaIsListening ==
    <<"l", "u", "n", "a", " ", "i", "s", " ", "l", "i", "s", "t", "e", "n", "i", "n", "g">>

\* "list memories"
T_CmdListMemories ==
    <<"l", "i", "s", "t", " ", "m", "e", "m", "o", "r", "i", "e", "s">>

\* "memories"
T_CmdMemories == <<"m", "e", "m", "o", "r", "i", "e", "s">>

\* "show memories"
T_CmdShowMemories ==
    <<"s", "h", "o", "w", " ", "m", "e", "m", "o", "r", "i", "e", "s">>

\* "remember my name is Bob"
T_RememberBob ==
    <<"r", "e", "m", "e", "m", "b", "e", "r", " ", "m", "y", " ", "n", "a", "m", "e",
      " ", "i", "s", " ", "B", "o", "b">>

\* "8.0"
T_Default8 == <<"8", ".", "0">>

\* What the ASR may return for a capture.
\* ""
T_Empty ==
    <<>>

\* "Luna, remember my name is Bob"
T_LunaRemember ==
    <<"L", "u", "n", "a", ",", " ", "r", "e", "m", "e", "m", "b", "e", "r",
    " ", "m", "y", " ", "n", "a", "m", "e", " ", "i", "s", " ", "B", "o",
    "b">>

\* "what time is it"
T_WhatTime ==
    <<"w", "h", "a", "t", " ", "t", "i", "m", "e", " ", "i", "s", " ", "i",
    "t">>

\* "Luna is listening."
T_SelfSpeech ==
    <<"L", "u", "n", "a", " ", "i", "s", " ", "l", "i", "s", "t", "e", "n",
    "i", "n", "g", ".">>

\* "LUNA!"
T_LunaOnly ==
    <<"L", "U", "N", "A", "!">>

\* "?!"
T_Punct ==
    <<"?", "!">>

\* "List Memories"
T_ListMemories ==
    <<"L", "i", "s", "t", " ", "M", "e", "m", "o", "r", "i", "e", "s">>

\* "luna: show memories"
T_LunaShowMemories ==
    <<"l", "u", "n", "a", ":", " ", "s", "h", "o", "w", " ", "m", "e", "m",
    "o", "r", "i", "e", "s">>

\* "lunar eclipse"
T_Lunar ==
    <<"l", "u", "n", "a", "r", " ", "e", "c", "l", "i", "p", "s", "e">>

\* "- hello"
T_DashHello ==
    <<"-", " ", "h", "e", "l", "l", "o">>

\* "OK Luna, stop"
T_OkLunaStop ==
    <<"O", "K", " ", "L", "u", "n", "a", ",", " ", "s", "t", "o", "p">>

\* "ok luna memories"
T_OkLunaMemories ==
    <<"o", "k", " ", "l", "u", "n", "a", " ", "m", "e", "m", "o", "r", "i",
    "e", "s">>

\* "oh, Luna is Listening now"
T_HeardSelf ==
    <<"o", "h", ",", " ", "L", "u", "n", "a", " ", "i", "s", " ", "L", "i",
    "s", "t", "e", "n", "i", "n", "g", " ", "n", "o", "w">>

\* "  " (two spaces)
T_Blank ==
    <<" ", " ">>

Transcripts ==
    {T_Empty, T_Blank, T_LunaRemember, T_WhatTime, T_SelfSpeech, T_LunaOnly, T_Punct,
     T_ListMemories, T_LunaShowMemories, T_Lunar, T_DashHello, T_OkLunaStop,
     T_OkLunaMemories, T_HeardSelf}

\* What AWAKE_WINDOW_S may be set to in the environment.
\* ""
E_Unset ==
    <<>>

\* "10"
E_10 ==
    <<"1", "0">>

\* "0"
E_0 ==
    <<"0">>

\* "-5"
E_Minus5 ==
    <<"-", "5">>

\* "59"
E_59 ==
    <<"5", "9">>

\* "60"
E_60 ==
    <<"6", "0">>

\* "90.0"
E_90 ==
    <<"9", "0", ".", "0">>

\* "abc"
E_Abc ==
    <<"a", "b", "c">>

AwakeEnvValues == {E_Unset, E_10, E_0, E_Minus5, E_59, E_60, E_90, E_Abc}

\* What WAKE_PHRASE may be set to in the environment.
WakePhraseEnvValues == {T_Empty, T_OkLuna}

WakeModes == {"keyboard", "cmd", "openwakeword"}

(***************************************************************************)
(* AudioIO.record_until_vad_end                                            *)
(***************************************************************************)
\* Sample amplitudes in thousandths of full scale (sample / 32768 * 1000);
\* every sample of one frame has the frame's amplitude.
Amplitudes == {2, 20}

\* voiced and loud, voiced and faint, unvoiced and faint
Frames == {[v |-> TRUE, a |-> 20], [v |-> TRUE, a |-> 2], [v |-> FALSE, a |-> 2]}

\* Arguments the calls are made with.  max_ms is max_seconds * 1000 and
\* min_rms is in thousandths (0.008 -> 8).
SegConfigs ==
    [rate : {16000}, channels : {1}, frame_ms : {20, 30},
     start_trigger_ms : {0, 40, 60}, end_trigger_ms : {20, 60},
     pre_roll_ms : {0, 40, 90}, max_ms : {70, 1000},
     min_speech_ms : {0, 70}, min_rms : {8}]
    \cup
    [rate : {16000, 8000}, channels : {1, 2}, frame_ms : {15, 20},
     start_trigger_ms : {40}, end_trigger_ms : {20},
     pre_roll_ms : {40}, max_ms : {1000},
     min_speech_ms : {70}, min_rms : {8}]

\* ConfigValid without the test of the rate
ConfigValid_AnyRate(c) ==
    /\ c.channels = 1
    /\ c.frame_ms \in {10, 20, 30}

\* the three argument checks that raise ValueError
ConfigValid(c) ==
    /\ c.rate = 16000
    /\ c.channels = 1
    /\ c.frame_ms \in {10, 20, 30}

start_trigger_frames(c) == Max(1, c.start_trigger_ms \div c.frame_ms)
end_trigger_frames(c)   == Max(1, c.end_trigger_ms \div c.frame_ms)
pre_roll_frames(c)      == Max(0, c.pre_roll_ms \div c.frame_ms)

\* RingPush with the ring sized pre_roll_frames + 1, as if the frame that
\* triggers the start were kept on top of the pre-roll
RingPush_OneMore(r, i, c) ==
    LET r1 == Append(r, i)
    IN  IF Len(r1) > pre_roll_frames(c) + 1 THEN Tail(r1) ELSE r1

\* RingPush with the newest frame dropped on overflow instead of the oldest
RingPush_DropNewest(r, i, c) ==
    LET r1 == Append(r, i)
    IN  IF Len(r1) > Max(pre_roll_frames(c), 1) THEN r ELSE r1

\* RingPush without the eviction
RingPush_NoEvict(r, i, c) == Append(r, i)

\* ring.append(chunk); if len(ring) > max(pre_roll_frames, 1): ring.pop(0)
RingPush(r, i, c) ==
    LET r1 == Append(r, i)
    IN  IF Len(r1) > Max(pre_roll_frames(c), 1) THEN Tail(r1) ELSE r1

\* SpeechCount without the floor at 0
SpeechCount_NoFloor(n, isSpeech) == IF isSpeech THEN n + 1 ELSE n - 1

\* speech_frames after one frame while waiting for speech
SpeechCount(n, isSpeech) == IF isSpeech THEN n + 1 ELSE Max(0, n - 1)

\* EndTriggered with a single silent frame enough
EndTriggered_Early(n, c) == n >= 1

\* StartTriggered one frame early
StartTriggered_Early(n, c) == n + 1 >= start_trigger_frames(c)

StartTriggered(n, c) == n >= start_trigger_frames(c)

EndTriggered(n, c) == n >= end_trigger_frames(c)

\* TimeUp with the test left out
TimeUp_Never(e, c) == FALSE

\* if (time.time() - t0) > max_seconds
TimeUp(e, c) == e > c.max_ms

\* subprocess.Popen(arecord_cmd, ...): one more arecord process
Spawned(n) == n + 1

\* Killed with the kill left out
Killed_Not(n) == n

\* p.kill(): the process is gone
Killed(n) == n - 1

\* dur_ms taken from the wall clock instead of the number of samples
DurMs_Elapsed(cap, c) == elapsed

\* dur_ms of the captured audio: every frame holds rate * frame_ms / 1000 samples
DurMs(cap, c) == Len(cap) * c.frame_ms

RECURSIVE SumSq(_, _)
SumSq(cap, st) ==
    IF cap = <<>> THEN 0
    ELSE st[Head(cap)].a * st[Head(cap)].a + SumSq(Tail(cap), st)

\* rms < min_rms, with rms = sqrt(mean((x / 32768) ^ 2) + 1e-12): both sides are
\* >= 0, so the squares compare alike; the mean is SumSq / Len over equal-sized
\* frames and the epsilon is below the resolution of the amplitudes.
TooQuiet(cap, st, c) == SumSq(cap, st) < Len(cap) * c.min_rms * c.min_rms

TooShort(cap, c) == DurMs(cap, c) < c.min_speech_ms

\* Rejected only when both tests fail
Rejected_Both(cap, st, c) == TooShort(cap, c) /\ TooQuiet(cap, st, c)

Rejected(cap, st, c) == TooShort(cap, c) \/ TooQuiet(cap, st, c)

\* no call before this one
NoRun == [end |-> "none"]

\* The code after the loop: the finally block (kill, wait), then the validation
\* of what was captured and the return value.
SegReturn(cap, st, why) ==
    /\ p_rec' = "reaped"
    /\ live' = Killed(live)
    /\ seg_end' = why
    /\ seg_pc' = "done"
    /\ IF cap = <<>> THEN
            /\ seg_result' = "false"
            /\ wav_written' = FALSE
       ELSE IF Rejected(cap, st, cfg) THEN
            /\ seg_result' = "false"
            /\ wav_written' = FALSE
       ELSE
            /\ seg_result' = "true"
            /\ wav_written' = TRUE

\* The call, up to the loop: argument checks, then Popen and the locals.  Every
\* call of one run of the program is made with the same arguments.
SegEnter ==
    /\ UNCHANGED notSeg
    /\ seg_pc \in {"idle", "done", "raised"}
    /\ UNCHANGED source
    /\ stream' = <<>>
    /\ ring' = <<>>
    /\ captured' = <<>>
    /\ speech_started' = FALSE
    /\ speech_frames' = 0
    /\ silence_frames' = 0
    /\ elapsed' = 0
    /\ seg_end' = "none"
    /\ wav_written' = FALSE
    /\ UNCHANGED cfg
    /\ IF ConfigValid(cfg) THEN
            /\ seg_pc' = "loop"
            /\ p_rec' = "alive"
            /\ live' = Spawned(live)
            /\ seg_result' = "none"
       ELSE
            /\ seg_pc' = "raised"
            /\ p_rec' = "none"
            /\ live' = live
            /\ seg_result' = "ValueError"

SegCall == SegEnter /\ UNCHANGED prev

\* if (time.time() - t0) > max_seconds: break
SegCap ==
    /\ UNCHANGED notSeg
    /\ seg_pc = "loop"
    /\ TimeUp(elapsed, cfg)
    /\ SegReturn(captured, stream, "cap")
    /\ UNCHANGED <<cfg, stream, ring, captured, speech_started, speech_frames,
                   silence_frames, elapsed, source, prev>>

\* SegShort with the short read raising instead of leaving the loop
SegShort_Raises ==
    /\ UNCHANGED notSeg
    /\ seg_pc = "loop"
    /\ ~TimeUp(elapsed, cfg)
    /\ p_rec' = "reaped"
    /\ live' = Killed(live)
    /\ seg_end' = "short"
    /\ seg_pc' = "raised"
    /\ seg_result' = "ShortRead"
    /\ UNCHANGED <<cfg, stream, ring, captured, speech_started, speech_frames,
                   silence_frames, elapsed, wav_written, source, prev>>

\* chunk = p.stdout.read(frame_bytes) is empty or short (the source is
\* exhausted): break.
SegShort ==
    /\ UNCHANGED notSeg
    /\ seg_pc = "loop"
    /\ ~TimeUp(elapsed, cfg)
    /\ SegReturn(captured, stream, "short")
    /\ UNCHANGED <<cfg, stream, ring, captured, speech_started, speech_frames,
                   silence_frames, elapsed, source, prev>>

\* vad.is_speech raises on the frame just read: the finally block runs and the
\* exception leaves the call, its locals with it.
SegVadError ==
    /\ UNCHANGED notSeg
    /\ seg_pc = "loop"
    /\ ~TimeUp(elapsed, cfg)
    /\ Len(stream) < MaxFrames
    /\ p_rec' = "reaped"
    /\ live' = Killed(live)
    /\ seg_end' = "error"
    /\ seg_pc' = "raised"
    /\ seg_result' = "VadError"
    /\ UNCHANGED <<cfg, stream, ring, captured, speech_started, speech_frames,
                   silence_frames, elapsed, wav_written, source, prev>>

\* One iteration of the loop over a full frame f whose read took d ms.
SegFrame(f, d) ==
    /\ UNCHANGED notSeg
    /\ seg_pc = "loop"
    /\ ~TimeUp(elapsed, cfg)
    /\ Len(stream) < MaxFrames
    /\ LET i  == Len(stream) + 1
           st == Append(stream, f)
           r  == RingPush(ring, i, cfg)
       IN
       /\ stream' = st
       /\ elapsed' = elapsed + d
       /\ IF ~speech_started THEN
             LET n == SpeechCount(speech_frames, f.v) IN
             /\ speech_frames' = n
             /\ IF StartTriggered(n, cfg) THEN
                    /\ speech_started' = TRUE
                    /\ captured' = captured \o r
                    /\ ring' = <<>>
                    /\ silence_frames' = 0
                ELSE
                    /\ ring' = r
                    /\ UNCHANGED <<speech_started, captured, silence_frames>>
             /\ UNCHANGED <<seg_pc, p_rec, live, seg_end, seg_result, wav_written>>
          ELSE
             LET cap == Append(captured, i)
                 s   == IF f.v THEN 0 ELSE silence_frames + 1
             IN
             /\ captured' = cap
             /\ ring' = r
             /\ silence_frames' = s
             /\ UNCHANGED <<speech_started, speech_frames>>
             /\ IF ~f.v /\ EndTriggered(s, cfg) THEN
                    SegReturn(cap, st, "silence")
                ELSE
                    UNCHANGED <<seg_pc, p_rec, live, seg_end, seg_result, wav_written>>
    /\ UNCHANGED <<cfg, source, prev>>

\* How long one read of the pipe may take: the frame arrived in real time, or late.
ReadDelays(c) == {c.frame_ms, 2 * c.frame_ms}

(***************************************************************************)
(* WakeWord.wait, mode "openwakeword"                                      *)
(***************************************************************************)
\* OpenWakeWordConfig defaults: threshold 0.35 in hundredths, block_ms,
\* refractory_s 1.2 in ms
Threshold == 35
BlockMs == 80
RefractoryMs == 1200

\* scores of the model for one block, in hundredths
Scores == {10, 35, 90}

\* time Model(...) takes to load at the start of a call
LoadDelays == {0, 400}

\* if score >= cfg.threshold and (now - last_fire) >= cfg.refractory_s
Fires(score, t, last) == score >= Threshold /\ (t - last) >= RefractoryMs

\* the finally block: p.kill(), then p.wait(timeout=1) with a timeout swallowed
KillOutcomes == {"reaped", "killed"}

\* lines the operator may type
L_q == <<"q">>
L_Q == <<"Q">>
L_QSpaced == <<" ", "q", " ">>
L_quit == <<"q", "u", "i", "t">>
L_QUIT == <<"Q", "U", "I", "T">>
L_x == <<"x">>
KeyLines == {<<>>, L_q, L_Q, L_QSpaced, L_quit, L_QUIT, L_x}

\* exit codes of the external command as subprocess.call returns them
\* (negative: ended by a signal)
ExitCodes == {0, 1, 2, -9}

\* wait() in mode "openwakeword" up to the loop: the model files are checked,
\* the model is loaded, last_fire = 0.0 and arecord is spawned.
WakeCall(present, d) ==
    /\ UNCHANGED notWake
    /\ wake_mode = "openwakeword"
    /\ wk_pc \in {"idle", "returned", "raised"}
    /\ wclock + d <= StartClock + MaxWakeMs
    /\ IF present THEN
            /\ wclock' = wclock + d
            /\ last_fire' = 0
            /\ p_wake' = "alive"
            /\ live' = Spawned(live)
            /\ wk_pc' = "listening"
            /\ wk_result' = "none"
       ELSE
            /\ wk_pc' = "raised"
            /\ wk_result' = "FileNotFoundError"
            /\ p_wake' = "none"
            /\ UNCHANGED <<wclock, last_fire, live>>
    /\ wk_score' = -1
    /\ wk_eof' = FALSE
    /\ wk_short' = 0
    /\ UNCHANGED <<wake_mode, fires, wk_line, wk_rcs>>

\* WakeShortRead with an exception raised at the end of the stream
WakeShortRead_Raises ==
    /\ UNCHANGED notWake
    /\ wk_pc = "listening"
    /\ wk_short < MaxShortReads
    /\ wk_short' = wk_short + 1
    /\ wk_eof' = TRUE
    /\ wk_pc' = "raised"
    /\ wk_result' = "EOFError"
    /\ p_wake' = "reaped"
    /\ live' = Killed(live)
    /\ UNCHANGED <<wake_mode, last_fire, wclock, fires, wk_score, wk_line, wk_rcs>>

\* buf = p.stdout.read(block_bytes) is empty or shorter than a block:
\* continue.  The buffered read of a pipe gives less than it was asked for
\* only at the end of the stream (arecord has exited), and from then on
\* every read of the call returns b"" at once.
WakeShortRead ==
    /\ UNCHANGED notWake
    /\ wk_pc = "listening"
    /\ wk_short < MaxShortReads
    /\ wk_short' = wk_short + 1
    /\ wk_eof' = TRUE
    /\ UNCHANGED <<wk_pc, wake_mode, p_wake, last_fire, wclock, fires, wk_result,
                   wk_score, wk_line, wk_rcs, live>>

\* One full block, read in block_ms and scored.
WakeBlock(score, k) ==
    /\ UNCHANGED notWake
    /\ wk_pc = "listening"
    /\ ~wk_eof
    /\ Len(fires) < MaxFires
    /\ wclock + BlockMs <= StartClock + MaxWakeMs
    /\ LET t == wclock + BlockMs IN
       /\ wclock' = t
       /\ wk_score' = score
       /\ IF Fires(score, t, last_fire) THEN
              /\ last_fire' = t
              /\ fires' = Append(fires, t)
              /\ p_wake' = k
              /\ live' = Killed(live)
              /\ wk_pc' = "returned"
              /\ wk_result' = "woke"
          ELSE
              UNCHANGED <<last_fire, fires, p_wake, live, wk_pc, wk_result>>
    /\ UNCHANGED <<wake_mode, wk_line, wk_rcs, wk_eof, wk_short>>

\* s = input(...).strip().lower(); return s != "q", with the lower() left out
KeyQuits_NoLower(line) == Strip(line) = <<"q">>

\* s = input(...).strip().lower(); s == "q"
KeyQuits(line) == LowerStr(Strip(line)) = <<"q">>

\* wait() in mode "keyboard": one line is read from the operator.
KeyWait(line) ==
    /\ UNCHANGED notWake
    /\ wake_mode = "keyboard"
    /\ wk_pc \in {"idle", "returned"}
    /\ wk_line' = line
    /\ wk_pc' = "returned"
    /\ wk_result' = IF KeyQuits(line) THEN "quit" ELSE "woke"
    /\ UNCHANGED <<wake_mode, p_wake, last_fire, wclock, fires, wk_score, wk_rcs, live,
                   wk_eof, wk_short>>

\* wait() in mode "keyboard": input() meets the end of the input and raises.
KeyEof ==
    /\ UNCHANGED notWake
    /\ wake_mode = "keyboard"
    /\ wk_pc \in {"idle", "returned"}
    /\ wk_line' = <<>>
    /\ wk_pc' = "raised"
    /\ wk_result' = "EOFError"
    /\ UNCHANGED <<wake_mode, p_wake, last_fire, wclock, fires, wk_score, wk_rcs, live,
                   wk_eof, wk_short>>

\* wait() in mode "cmd" up to the loop: an empty command raises ValueError.
CmdCall(hasCmd) ==
    /\ UNCHANGED notWake
    /\ wake_mode = "cmd"
    /\ wk_pc \in {"idle", "returned", "raised"}
    /\ wk_rcs' = <<>>
    /\ IF hasCmd THEN
            /\ wk_pc' = "running"
            /\ wk_result' = "none"
       ELSE
            /\ wk_pc' = "raised"
            /\ wk_result' = "ValueError"
    /\ UNCHANGED <<wake_mode, p_wake, last_fire, wclock, fires, wk_score, wk_line, live,
                   wk_eof, wk_short>>

\* if rc == 0, with the test rc >= 0 in its place
CmdWoke_NonNegative(rc) == rc >= 0

\* if rc == 0: return True
CmdWoke(rc) == rc = 0

\* One iteration of the loop of mode "cmd": rc = subprocess.call(self.cmd,
\* shell=True) ran the command to its end.
CmdRun(rc) ==
    /\ UNCHANGED notWake
    /\ wake_mode = "cmd"
    /\ wk_pc = "running"
    /\ Len(wk_rcs) < MaxRuns
    /\ wk_rcs' = Append(wk_rcs, rc)
    /\ IF CmdWoke(rc) THEN
            /\ wk_pc' = "returned"
            /\ wk_result' = "woke"
       ELSE
            UNCHANGED <<wk_pc, wk_result>>
    /\ UNCHANGED <<wake_mode, p_wake, last_fire, wclock, fires, wk_score, wk_line, live,
                   wk_eof, wk_short>>

WakeIdle ==
    /\ wk_pc = "idle"
    /\ p_wake = "none"
    /\ last_fire = 0
    /\ wclock = StartClock
    /\ fires = <<>>
    /\ wk_result = "none"
    /\ wk_score = -1
    /\ wk_line = <<>>
    /\ wk_rcs = <<>>
    /\ wk_eof = FALSE
    /\ wk_short = 0

WakeNext ==
    \/ \E present \in BOOLEAN, d \in LoadDelays : WakeCall(present, d)
    \/ WakeShortRead
    \/ \E score \in Scores, k \in KillOutcomes : WakeBlock(score, k)
    \/ \E line \in KeyLines : KeyWait(line)
    \/ KeyEof
    \/ \E hasCmd \in BOOLEAN : CmdCall(hasCmd)
    \/ \E rc \in ExitCodes : CmdRun(rc)

(***************************************************************************)
(* KnowledgeBase (luna_assistant/knowledge_base.py)                        *)
(***************************************************************************)
KbDocIds == {"d1", "d2"}

\* lines of the texts that are ingested
KL_Cat == <<"c", "a", "t">>
KL_Dog == <<"d", "o", "g">>
KL_Space == <<" ">>

\* the texts, as text.splitlines() gives them: "cat", "dog", "cat\n\ndog",
\* " " and ""
KbTexts == {<<KL_Cat>>, <<KL_Dog>>, <<KL_Cat, <<>>, KL_Dog>>, <<KL_Space>>, <<>>}

\* chunk_chars: small enough to cut "cat\n\ndog", and the default
KbChunkChars == {4, 1200}

\* "\n".join(buf)
RECURSIVE JoinLines(_)
JoinLines(buf) ==
    IF buf = <<>> THEN <<>>
    ELSE IF Len(buf) = 1 THEN buf[1]
    ELSE buf[1] \o <<"\n">> \o JoinLines(Tail(buf))

\* The chunking loop of ingest_text from line i on, with its locals parts,
\* buf and buf_len, and the last flush after the loop.
RECURSIVE ChunkFrom(_, _, _, _, _, _)
ChunkFrom(lines, i, chunk_chars, parts, buf, buf_len) ==
    IF i > Len(lines) THEN
        IF buf # <<>> THEN Append(parts, Strip(JoinLines(buf))) ELSE parts
    ELSE
        LET l     == RStrip(lines[i], Whitespace)
            line  == IF l = <<>> THEN <<"\n">> ELSE l
            flush == buf_len + Len(line) + 1 > chunk_chars /\ buf # <<>>
            parts1 == IF flush THEN Append(parts, Strip(JoinLines(buf))) ELSE parts
            buf1   == IF flush THEN <<>> ELSE buf
            len1   == IF flush THEN 0 ELSE buf_len
        IN  ChunkFrom(lines, i + 1, chunk_chars, parts1, Append(buf1, line),
                      len1 + Len(line) + 1)

\* [p for p in parts if p]
RECURSIVE NonEmpty(_)
NonEmpty(parts) ==
    IF parts = <<>> THEN <<>>
    ELSE IF parts[1] = <<>> THEN NonEmpty(Tail(parts))
    ELSE <<parts[1]>> \o NonEmpty(Tail(parts))

\* the chunks ingest_text stores for a text
Chunks(lines, chunk_chars) == NonEmpty(ChunkFrom(lines, 1, chunk_chars, <<>>, <<>>, 0))

\* SELECT c.id, c.doc_id, d.source, c.text FROM chunks c JOIN docs d
\* ON d.id = c.doc_id ORDER BY c.id ASC
RECURSIVE StoredRows(_, _)
StoredRows(chunks, docs) ==
    LET joined == {c \in chunks : c.doc_id \in docs} IN
    IF joined = {} THEN <<>>
    ELSE LET c == CHOOSE x \in joined : \A y \in joined : x.id <= y.id
         IN  <<[id |-> c.id, doc_id |-> c.doc_id, text |-> c.text]>>
             \o StoredRows(joined \ {c}, docs)

NoKbCall == [op |-> "none", searched |-> <<>>]

\* ingest_text(doc_id, source, text, chunk_chars=chunk_chars): the row of
\* the document is replaced, its chunks are deleted and the new chunks are
\* inserted; the index in memory is not touched.
IngestText(doc_id, lines, chunk_chars) ==
    /\ UNCHANGED notKb
    /\ kb_ops < MaxKbOps
    /\ kb_ops' = kb_ops + 1
    /\ LET parts == Chunks(lines, chunk_chars) IN
       /\ kb_docs' = kb_docs \cup {doc_id}
       /\ kb_chunks' = {c \in kb_chunks : c.doc_id # doc_id} \cup
              {[id |-> kb_next_id + i - 1, doc_id |-> doc_id, chunk_index |-> i - 1,
                text |-> parts[i]] : i \in 1..Len(parts)}
       /\ kb_next_id' = kb_next_id + Len(parts)
    /\ kb_last' = [op |-> "ingest", searched |-> <<>>]
    /\ UNCHANGED <<kb_bm25, kb_chunk_rows>>

\* rebuild_index()
RebuildIndex ==
    /\ UNCHANGED notKb
    /\ kb_ops < MaxKbOps
    /\ kb_ops' = kb_ops + 1
    /\ kb_chunk_rows' = StoredRows(kb_chunks, kb_docs)
    /\ kb_bm25' = (kb_chunk_rows' # <<>>)
    /\ kb_last' = [op |-> "rebuild", searched |-> <<>>]
    /\ UNCHANGED <<kb_docs, kb_chunks, kb_next_id>>

\* retrieve(query): if not self._bm25: self.rebuild_index(); if not
\* self._bm25: return []; then the scores of BM25Okapi over self._chunk_rows.
\* searched: the rows the scores are taken over.
Retrieve ==
    /\ UNCHANGED notKb
    /\ kb_ops < MaxKbOps
    /\ kb_ops' = kb_ops + 1
    /\ IF ~kb_bm25 THEN
            /\ kb_chunk_rows' = StoredRows(kb_chunks, kb_docs)
            /\ kb_bm25' = (kb_chunk_rows' # <<>>)
       ELSE
            UNCHANGED <<kb_bm25, kb_chunk_rows>>
    /\ kb_last' = [op |-> "retrieve",
                   searched |-> IF kb_bm25' THEN kb_chunk_rows' ELSE <<>>]
    /\ UNCHANGED <<kb_docs, kb_chunks, kb_next_id>>

\* KnowledgeBase(db_path) on a new database
KbIdle ==
    /\ kb_docs = {}
    /\ kb_chunks = {}
    /\ kb_next_id = 1
    /\ kb_bm25 = FALSE
    /\ kb_chunk_rows = <<>>
    /\ kb_ops = 0
    /\ kb_last = NoKbCall

KbNext ==
    \/ \E doc_id \in KbDocIds, lines \in KbTexts, chunk_chars \in KbChunkChars :
            IngestText(doc_id, lines, chunk_chars)
    \/ RebuildIndex
    \/ Retrieve

(***************************************************************************)
(* Config, LunaAssistant.__init__ and LunaAssistant.run (app/)             *)
(***************************************************************************)
\* The clock of run() is read to the Tick.  How far it may move during a call
\* that takes less than a second, during one that takes seconds, and during
\* one that may take minutes (the LLM request times out after 120 s).
NoDelay == {0}
ShortDelays == {0, Tick}
LongDelays == {0, Tick, 2 * Tick}

\* _env(name, default) for the value v of the variable ("" when unset)
EnvOr(v, default) == IF Strip(v) # <<>> THEN Strip(v) ELSE default

\* v = float(cfg.awake_window_s or 300.0); v if v >= 60.0 else 300.0
AwakeWindow(v) ==
    LET w == IF v = 0 THEN 300 ELSE v
    IN  IF w >= 60 THEN w ELSE 300

\* _looks_like_self_tts without lower()
LooksLikeSelfTts_CaseSensitive(text) ==
    LET t == Strip(text)
    IN  t = <<>> \/ Contains(t, T_LunaIsListening)

\* _looks_like_self_tts
LooksLikeSelfTts(text) ==
    LET t == LowerStr(Strip(text))
    IN  t = <<>> \/ Contains(t, T_LunaIsListening)

\* _strip_wake_phrase without the startswith test
StripWakePhrase_AnyText(text, phrase) == LStrip(Strip(text), LeadingNoise)

\* _strip_wake_phrase with rest = t[len(wp):] replaced by rest = t
StripWakePhrase_KeepPhrase(text, phrase) ==
    LET t  == Strip(text)
        wp == LowerStr(Strip(phrase))
    IN  IF t = <<>> THEN <<>>
        ELSE IF wp = <<>> THEN t
        ELSE IF ~StartsWith(LowerStr(t), wp) THEN <<>>
        ELSE LStrip(t, LeadingNoise)

\* _strip_wake_phrase; None is the empty text, the caller tests `not stripped`
StripWakePhrase(text, phrase) ==
    LET t  == Strip(text)
        wp == LowerStr(Strip(phrase))
    IN  IF t = <<>> THEN <<>>
        ELSE IF wp = <<>> THEN t
        ELSE IF ~StartsWith(LowerStr(t), wp) THEN <<>>
        ELSE LStrip(Strip(SubSeq(t, Len(wp) + 1, Len(t))), LeadingNoise)

\* free_commands_left -= 1, as free_commands_left = 0
FreeAfterUse_AllSpent(n) == 0

\* free_commands_left -= 1, left out
FreeAfterUse_Kept(n) == n

\* free_commands_left -= 1
FreeAfterUse(n) == n - 1

\* the memory command test without lower()
IsMemoryCommand_CaseSensitive(text) ==
    Strip(text) \in {T_CmdListMemories, T_CmdMemories, T_CmdShowMemories}

\* stripped.strip().lower() in {"list memories", "memories", "show memories"}
IsMemoryCommand(text) ==
    LowerStr(Strip(text)) \in {T_CmdListMemories, T_CmdMemories, T_CmdShowMemories}

\* Decide with the free command taken before the tests of the empty
\* transcript and of the assistant's own speech
Decide_FreeFirst(text, phrase, free) ==
    LET raw   == Strip(text)
        wp    == LowerStr(Strip(phrase))
        raw_l == LowerStr(Strip(raw))
        swl   == wp # <<>> /\ StartsWith(raw_l, wp)
        s0    == IF free > 0 THEN raw ELSE StripWakePhrase(raw, phrase)
        f1    == IF free > 0 THEN FreeAfterUse(free) ELSE free
        s1    == LStrip(s0, LeadingNoise)
    IN  IF raw = <<>> THEN
            [out |-> "empty", stripped |-> <<>>, starts |-> FALSE, free |-> f1]
        ELSE IF LooksLikeSelfTts(raw) THEN
            [out |-> "self", stripped |-> <<>>, starts |-> FALSE, free |-> f1]
        ELSE IF s0 = <<>> THEN
            [out |-> "discarded", stripped |-> <<>>, starts |-> swl, free |-> f1]
        ELSE IF s1 = <<>> THEN
            [out |-> "discarded", stripped |-> s1,
             starts |-> (free = 0 \/ swl), free |-> f1]
        ELSE
            [out |-> "command", stripped |-> s1,
             starts |-> (free = 0 \/ swl), free |-> f1]

\* Decide with starts_with_luna true for every command
Decide_EveryCommandResets(text, phrase, free) ==
    LET raw   == Strip(text)
        wp    == LowerStr(Strip(phrase))
        raw_l == LowerStr(Strip(raw))
        swl   == wp # <<>> /\ StartsWith(raw_l, wp)
        s0    == IF free > 0 THEN raw ELSE StripWakePhrase(raw, phrase)
        f1    == IF free > 0 THEN FreeAfterUse(free) ELSE free
        s1    == LStrip(s0, LeadingNoise)
    IN  IF raw = <<>> THEN
            [out |-> "empty", stripped |-> <<>>, starts |-> FALSE, free |-> free]
        ELSE IF LooksLikeSelfTts(raw) THEN
            [out |-> "self", stripped |-> <<>>, starts |-> FALSE, free |-> free]
        ELSE IF s0 = <<>> THEN
            [out |-> "discarded", stripped |-> <<>>, starts |-> swl, free |-> f1]
        ELSE IF s1 = <<>> THEN
            [out |-> "discarded", stripped |-> s1, starts |-> TRUE, free |-> f1]
        ELSE
            [out |-> "command", stripped |-> s1, starts |-> TRUE, free |-> f1]

\* Lines 172-196 of run() for the transcript text: what the turn is ("empty",
\* "self", "discarded" or "command") and the locals after it.
Decide(text, phrase, free) ==
    LET raw   == Strip(text)
        wp    == LowerStr(Strip(phrase))
        raw_l == LowerStr(Strip(raw))
        swl   == wp # <<>> /\ StartsWith(raw_l, wp)
        s0    == IF free > 0 THEN raw ELSE StripWakePhrase(raw, phrase)
        f1    == IF free > 0 THEN FreeAfterUse(free) ELSE free
        s1    == LStrip(s0, LeadingNoise)
    IN  IF raw = <<>> THEN
            [out |-> "empty", stripped |-> <<>>, starts |-> FALSE, free |-> free]
        ELSE IF LooksLikeSelfTts(raw) THEN
            [out |-> "self", stripped |-> <<>>, starts |-> FALSE, free |-> free]
        ELSE IF s0 = <<>> THEN
            [out |-> "discarded", stripped |-> <<>>, starts |-> swl, free |-> f1]
        ELSE IF s1 = <<>> THEN
            [out |-> "discarded", stripped |-> s1,
             starts |-> (free = 0 \/ swl), free |-> f1]
        ELSE
            [out |-> "command", stripped |-> s1,
             starts |-> (free = 0 \/ swl), free |-> f1]

NoTurn ==
    [out |-> "none", free0 |-> 0, last0 |-> 0, prefixed |-> FALSE, utt |-> 0, np |-> 0,
     log |-> "none"]

\* An exception leaves run(): the program ends with it.
Crash(e) ==
    /\ pc' = "crashed"
    /\ error' = e

\* the warmups of LunaAssistant.__init__, each in its own try/except
WarmupCalls == {"asr", "tts", "llm"}

\* The module app.config is imported (class Config is built from the
\* environment) and LunaAssistant() is constructed; the warmups wf raise
\* inside their try blocks.
Boot(ea, ewp, mode, wf) ==
    /\ pc = "boot"
    /\ env_awake' = ea
    /\ turns' = turns
    /\ LET parsed == ParseFloat(EnvOr(ea, T_Default8)) IN
       IF parsed.ok THEN
            /\ warm_failed' = wf
            /\ cfg_awake' = parsed.val
            /\ wake_phrase' = EnvOr(ewp, T_Luna)
            /\ wake_mode' = mode
            /\ awake_window_s' = AwakeWindow(parsed.val)
            /\ pc' = "sleeping"
            /\ error' = "none"
       ELSE
            /\ Crash("ValueError")
            /\ UNCHANGED <<warm_failed, cfg_awake, wake_phrase, wake_mode, awake_window_s>>
    /\ UNCHANGED <<now, last_luna_cmd_ts, free_commands_left, raw_text, stripped,
                   starts_with_luna, site, calls, turn, p_wake, p_rec, live>>
    /\ UNCHANGED notRun

\* woke = self.wake.wait() is entered; in mode "openwakeword" the model files
\* are looked up and arecord is spawned.
RunWait(present) ==
    /\ pc = "sleeping"
    /\ IF wake_mode = "openwakeword" THEN
            IF present THEN
                /\ p_wake' = "alive"
                /\ live' = Spawned(live)
                /\ pc' = "waiting"
                /\ error' = error
            ELSE
                /\ Crash("FileNotFoundError")
                /\ UNCHANGED <<p_wake, live>>
       ELSE
            /\ pc' = "waiting"
            /\ UNCHANGED <<p_wake, live, error>>
    /\ UNCHANGED <<env_awake, warm_failed, turns, cfg_awake,
                   wake_phrase, wake_mode, awake_window_s, now,
                   last_luna_cmd_ts, free_commands_left, raw_text, stripped,
                   starts_with_luna, site, calls, turn, p_rec>>
    /\ UNCHANGED notRun

\* wait() returns True after d seconds; self.speak("Luna is listening.") is entered.
RunWoke(d, k) ==
    /\ pc = "waiting"
    /\ now + d <= MaxNow
    /\ now' = now + d
    /\ IF wake_mode = "openwakeword" THEN
            /\ p_wake' = k
            /\ live' = Killed(live)
       ELSE
            UNCHANGED <<p_wake, live>>
    /\ pc' = "synth"
    /\ site' = "ack"
    /\ calls' = <<>>
    /\ turn' = NoTurn
    /\ UNCHANGED <<error, env_awake, warm_failed, turns, cfg_awake,
                   wake_phrase, wake_mode, awake_window_s,
                   last_luna_cmd_ts, free_commands_left, raw_text, stripped,
                   starts_with_luna, p_rec>>
    /\ UNCHANGED notRun

\* wait() returns False (mode "keyboard" only): run() returns.
RunQuit ==
    /\ pc = "waiting"
    /\ wake_mode = "keyboard"
    /\ pc' = "terminated"
    /\ UNCHANGED <<error, env_awake, warm_failed, turns, cfg_awake,
                   wake_phrase, wake_mode, awake_window_s,
                   now, last_luna_cmd_ts, free_commands_left, raw_text, stripped,
                   starts_with_luna, site, calls, turn, p_wake, p_rec, live>>
    /\ UNCHANGED notRun

\* speak(): self.tts.synth_to_wav(text, ...)
SpeakSynth(ok, d) ==
    /\ pc = "synth"
    /\ now + d <= MaxNow
    /\ now' = now + d
    /\ calls' = Append(calls, "tts")
    /\ IF ok THEN pc' = "play" /\ error' = error ELSE Crash("SynthesisFailed")
    /\ UNCHANGED <<env_awake, warm_failed, turns, cfg_awake,
                   wake_phrase, wake_mode, awake_window_s,
                   last_luna_cmd_ts, free_commands_left, raw_text, stripped,
                   starts_with_luna, site, turn, p_wake, p_rec, live>>
    /\ UNCHANGED notRun

\* SpeakPlay with speak() returning right after the playback
SpeakPlay_NoGuard(ok, d) ==
    /\ pc = "play"
    /\ now + d <= MaxNow
    /\ now' = now + d
    /\ calls' = Append(calls, "play")
    /\ IF ok THEN pc' = (IF site = "reply" THEN "log" ELSE "loop") /\ error' = error
       ELSE Crash("PlaybackFailed")
    /\ UNCHANGED <<env_awake, warm_failed, turns, cfg_awake,
                   wake_phrase, wake_mode, awake_window_s,
                   last_luna_cmd_ts, free_commands_left, raw_text, stripped,
                   starts_with_luna, site, turn, p_wake, p_rec, live>>
    /\ UNCHANGED notRun

\* speak(): self.audio.play_wav(...)
SpeakPlay(ok, d) ==
    /\ pc = "play"
    /\ now + d <= MaxNow
    /\ now' = now + d
    /\ calls' = Append(calls, "play")
    /\ IF ok THEN pc' = "guard" /\ error' = error ELSE Crash("PlaybackFailed")
    /\ UNCHANGED <<env_awake, warm_failed, turns, cfg_awake,
                   wake_phrase, wake_mode, awake_window_s,
                   last_luna_cmd_ts, free_commands_left, raw_text, stripped,
                   starts_with_luna, site, turn, p_wake, p_rec, live>>
    /\ UNCHANGED notRun

\* SpeakGuard with the two assignments after the acknowledgment left out
SpeakGuard_KeepsSession(d) ==
    /\ pc = "guard"
    /\ now + d <= MaxNow
    /\ now' = now + d
    /\ pc' = IF site = "reply" THEN "log" ELSE "loop"
    /\ UNCHANGED <<last_luna_cmd_ts, free_commands_left>>
    /\ UNCHANGED <<error, env_awake, warm_failed, turns, cfg_awake,
                   wake_phrase, wake_mode, awake_window_s,
                   raw_text, stripped, starts_with_luna, site, calls, turn, p_wake,
                   p_rec, live>>
    /\ UNCHANGED notRun

\* speak(): time.sleep(0.6), and the return to the call site.  After the
\* acknowledgment the session starts: last_luna_cmd_ts = time.monotonic(),
\* free_commands_left = 2.
SpeakGuard(d) ==
    /\ pc = "guard"
    /\ now + d <= MaxNow
    /\ now' = now + d
    /\ IF site = "ack" THEN
            /\ last_luna_cmd_ts' = now + d
            /\ free_commands_left' = 2
            /\ pc' = "loop"
       ELSE
            /\ pc' = IF site = "reply" THEN "log" ELSE "loop"
            /\ UNCHANGED <<last_luna_cmd_ts, free_commands_left>>
    /\ UNCHANGED <<error, env_awake, warm_failed, turns, cfg_awake,
                   wake_phrase, wake_mode, awake_window_s,
                   raw_text, stripped, starts_with_luna, site, calls, turn, p_wake,
                   p_rec, live>>
    /\ UNCHANGED notRun

\* StillAwake with <= in place of <
StillAwake_Inclusive(t, last, w) == (t - last) <= w

\* StillAwake with half the window
StillAwake_Half(t, last, w) == 2 * (t - last) < w

\* StillAwake with the test left out
StillAwake_Always(t, last, w) == TRUE

\* while (time.monotonic() - last_luna_cmd_ts) < self.awake_window_s
StillAwake(t, last, w) == (t - last) < w

\* The while condition holds: record_until_vad_end is called and spawns arecord.
Listen ==
    /\ pc = "loop"
    /\ StillAwake(now, last_luna_cmd_ts, awake_window_s)
    /\ pc' = "capturing"
    /\ p_rec' = "alive"
    /\ live' = Spawned(live)
    /\ calls' = <<>>
    /\ raw_text' = <<>>
    /\ stripped' = <<>>
    /\ starts_with_luna' = FALSE
    /\ turn' = [turn EXCEPT !.out = "none", !.free0 = free_commands_left,
                            !.last0 = last_luna_cmd_ts, !.prefixed = FALSE,
                            !.log = "none"]
    /\ UNCHANGED <<error, env_awake, warm_failed, turns, cfg_awake,
                   wake_phrase, wake_mode, awake_window_s,
                   now, last_luna_cmd_ts, free_commands_left, site, p_wake>>
    /\ UNCHANGED notRun

\* The while condition fails: the session ends, back to wait().
GoToSleep ==
    /\ pc = "loop"
    /\ ~StillAwake(now, last_luna_cmd_ts, awake_window_s)
    /\ pc' = "sleeping"
    /\ UNCHANGED <<error, env_awake, warm_failed, turns, cfg_awake,
                   wake_phrase, wake_mode, awake_window_s,
                   now, last_luna_cmd_ts, free_commands_left, raw_text, stripped,
                   starts_with_luna, site, calls, turn, p_wake, p_rec, live>>
    /\ UNCHANGED notRun

\* record_until_vad_end returns ok after d seconds, its arecord killed and reaped.
RecDone(ok, d) ==
    /\ pc = "capturing"
    /\ now + d <= MaxNow
    /\ now' = now + d
    /\ p_rec' = "reaped"
    /\ live' = Killed(live)
    /\ IF ok THEN
            /\ pc' = "asr"
            /\ turn' = turn
       ELSE
            /\ pc' = "loop"
            /\ turn' = [turn EXCEPT !.out = "nospeech"]
    /\ UNCHANGED <<error, env_awake, warm_failed, turns, cfg_awake,
                   wake_phrase, wake_mode, awake_window_s,
                   last_luna_cmd_ts, free_commands_left, raw_text, stripped,
                   starts_with_luna, site, calls, p_wake>>
    /\ UNCHANGED notRun

\* record_until_vad_end raises out of its loop, its arecord killed and reaped.
RecRaises(d) ==
    /\ pc = "capturing"
    /\ now + d <= MaxNow
    /\ now' = now + d
    /\ p_rec' = "reaped"
    /\ live' = Killed(live)
    /\ Crash("CaptureFailed")
    /\ UNCHANGED <<env_awake, warm_failed, turns, cfg_awake,
                   wake_phrase, wake_mode, awake_window_s,
                   last_luna_cmd_ts, free_commands_left, raw_text, stripped,
                   starts_with_luna, site, calls, turn, p_wake>>
    /\ UNCHANGED notRun

\* self.asr.transcribe raises (whisper-cli exits nonzero).
AsrFails(d) ==
    /\ pc = "asr"
    /\ now + d <= MaxNow
    /\ now' = now + d
    /\ calls' = Append(calls, "asr")
    /\ Crash("TranscriptionFailed")
    /\ UNCHANGED <<env_awake, warm_failed, turns, cfg_awake,
                   wake_phrase, wake_mode, awake_window_s,
                   last_luna_cmd_ts, free_commands_left, raw_text, stripped,
                   starts_with_luna, site, turn, p_wake, p_rec, live>>
    /\ UNCHANGED notRun

\* self.asr.transcribe returns text after d seconds; the turn is decided up to
\* the reset of the idle timer and the choice between the memory listing and
\* the LLM.
Transcribe(text, d) ==
    /\ pc = "asr"
    /\ now + d <= MaxNow
    /\ now' = now + d
    /\ calls' = Append(calls, "asr")
    /\ LET dec == Decide(text, wake_phrase, free_commands_left)
           pre == StartsWith(LowerStr(Strip(text)), LowerStr(Strip(wake_phrase)))
           utt == dec.out \in {"discarded", "command"}
       IN
       /\ raw_text' = Strip(text)
       /\ stripped' = dec.stripped
       /\ starts_with_luna' = dec.starts
       /\ free_commands_left' = dec.free
       /\ last_luna_cmd_ts' =
              IF dec.out = "command" /\ dec.starts THEN now + d ELSE last_luna_cmd_ts
       /\ pc' = IF dec.out # "command" THEN "loop"
                ELSE IF IsMemoryCommand(dec.stripped) THEN "listing"
                ELSE "chatting"
       /\ turn' = [turn EXCEPT
                      !.out = dec.out,
                      !.prefixed = pre,
                      !.utt = IF utt /\ @ < 3 THEN @ + 1 ELSE @,
                      !.np = IF utt /\ ~pre /\ @ < 3 THEN @ + 1 ELSE @]
    /\ UNCHANGED <<error, env_awake, warm_failed, turns, cfg_awake,
                   wake_phrase, wake_mode, awake_window_s,
                   site, p_wake, p_rec, live>>
    /\ UNCHANGED notRun

\* The local memory command: the pinned and the recent facts are read (hp, hr:
\* whether there are any) and speak() is entered with the listing.
ListMemories(hp, hr) ==
    /\ pc = "listing"
    /\ calls' = Append(calls, "store")
    /\ site' = IF ~hp /\ ~hr THEN "none_stored" ELSE "listing"
    /\ pc' = "synth"
    /\ UNCHANGED <<error, env_awake, warm_failed, turns, cfg_awake,
                   wake_phrase, wake_mode, awake_window_s,
                   now, last_luna_cmd_ts, free_commands_left, raw_text, stripped,
                   starts_with_luna, turn, p_wake, p_rec, live>>
    /\ UNCHANGED notRun

\* _build_pinned_context() and self.llm.chat(stripped, ...), which returns
\* after d seconds or raises; speak(reply) is entered.
Chat(ok, d) ==
    /\ pc = "chatting"
    /\ now + d <= MaxNow
    /\ now' = now + d
    /\ calls' = calls \o <<"store", "llm">>
    /\ IF ok THEN
            /\ site' = "reply"
            /\ pc' = "synth"
            /\ error' = error
       ELSE
            /\ Crash("ChatRequestFailed")
            /\ site' = site
    /\ UNCHANGED <<env_awake, warm_failed, turns, cfg_awake,
                   wake_phrase, wake_mode, awake_window_s,
                   last_luna_cmd_ts, free_commands_left, raw_text, stripped,
                   starts_with_luna, turn, p_wake, p_rec, live>>
    /\ UNCHANGED notRun

\* dataclass TurnRecord: its fields, and those without a default value
TurnRecordFields ==
    {"session_id", "ts_unix", "user_text", "assistant_text", "asr_ms", "llm_ms",
     "tts_ms", "total_ms", "meta"}

TurnRecordRequired == {"session_id", "ts_unix", "user_text", "assistant_text"}

\* the keyword arguments of TurnRecord(user=stripped, assistant=reply)
LogTurnKeywords == {"user", "assistant"}

\* The generated __init__ of a dataclass returns for the keywords kw when
\* each names a field and no field without a default is missing; otherwise
\* it raises TypeError.
Constructs(kw, fields, required) == kw \subseteq fields /\ required \subseteq kw

\* LogTurn with the except clause left out
LogTurn_Propagates(storeOk) ==
    /\ pc = "log"
    /\ IF ~Constructs(LogTurnKeywords, TurnRecordFields, TurnRecordRequired) THEN
            /\ Crash("TypeError")
            /\ turns' = turns
            /\ turn' = [turn EXCEPT !.log = "TypeError"]
       ELSE IF storeOk /\ Len(turns) < MaxLogged THEN
            /\ turns' = Append(turns, stripped)
            /\ turn' = [turn EXCEPT !.log = "stored"]
            /\ pc' = "loop"
            /\ error' = error
       ELSE
            /\ Crash("StoreError")
            /\ turns' = turns
            /\ turn' = [turn EXCEPT !.log = "StoreError"]
    /\ UNCHANGED <<env_awake, warm_failed, cfg_awake, wake_phrase, wake_mode,
                   awake_window_s, now, last_luna_cmd_ts, free_commands_left, raw_text,
                   stripped, starts_with_luna, site, calls, p_wake, p_rec, live>>
    /\ UNCHANGED notRun

\* try: self.store.add_turn(TurnRecord(user=stripped, assistant=reply))
\* except Exception: pass.  The record is constructed first; add_turn, when
\* it is reached, inserts the row and commits (storeOk) or raises.
LogTurn(storeOk) ==
    /\ pc = "log"
    /\ pc' = "loop"
    /\ IF ~Constructs(LogTurnKeywords, TurnRecordFields, TurnRecordRequired) THEN
            /\ turns' = turns
            /\ turn' = [turn EXCEPT !.log = "TypeError"]
       ELSE IF storeOk /\ Len(turns) < MaxLogged THEN
            /\ turns' = Append(turns, stripped)
            /\ turn' = [turn EXCEPT !.log = "stored"]
       ELSE
            /\ turns' = turns
            /\ turn' = [turn EXCEPT !.log = "StoreError"]
    /\ UNCHANGED <<error, env_awake, warm_failed, cfg_awake, wake_phrase, wake_mode,
                   awake_window_s, now, last_luna_cmd_ts, free_commands_left, raw_text,
                   stripped, starts_with_luna, site, calls, p_wake, p_rec, live>>
    /\ UNCHANGED notRun

\* the environments of os.environ the sessions are explored under:
\* AWAKE_WINDOW_S, WAKE_PHRASE and WAKE_MODE, and the warmups that fail
SessionEnvs ==
    { [awake |-> E_Unset, phrase |-> T_Empty, mode |-> "openwakeword",
       warm |-> WarmupCalls],
      [awake |-> E_60, phrase |-> T_OkLuna, mode |-> "keyboard", warm |-> {}],
      [awake |-> E_Abc, phrase |-> T_Empty, mode |-> "keyboard", warm |-> {"llm"}] }

RunIdle ==
    /\ pc = "boot"
    /\ error = "none"
    /\ env_awake = <<>>
    /\ warm_failed = {}
    /\ turns = <<>>
    /\ cfg_awake = 0
    /\ wake_phrase = <<>>
    /\ awake_window_s = 0
    /\ now = 0
    /\ last_luna_cmd_ts = 0
    /\ free_commands_left = 0
    /\ raw_text = <<>>
    /\ stripped = <<>>
    /\ starts_with_luna = FALSE
    /\ site = "none"
    /\ calls = <<>>
    /\ turn = NoTurn
    /\ live = 0
    /\ deadline = 0
    /\ first_command_free = FALSE

Next ==
    \/ \E e \in SessionEnvs : Boot(e.awake, e.phrase, e.mode, e.warm)
    \/ \E present \in BOOLEAN : RunWait(present)
    \/ \E d \in ShortDelays, k \in KillOutcomes : RunWoke(d, k)
    \/ RunQuit
    \/ \E ok \in BOOLEAN, d \in NoDelay : SpeakSynth(ok, d)
    \/ \E ok \in BOOLEAN, d \in ShortDelays : SpeakPlay(ok, d)
    \/ \E d \in NoDelay : SpeakGuard(d)
    \/ Listen
    \/ GoToSleep
    \/ \E ok \in BOOLEAN, d \in ShortDelays : RecDone(ok, d)
    \/ \E d \in NoDelay : RecRaises(d)
    \/ \E d \in NoDelay : AsrFails(d)
    \/ \E text \in Transcripts, d \in ShortDelays : Transcribe(text, d)
    \/ \E hp \in BOOLEAN, hr \in BOOLEAN : ListMemories(hp, hr)
    \/ \E ok \in BOOLEAN, d \in LongDelays : Chat(ok, d)
    \/ \E storeOk \in BOOLEAN : LogTurn(storeOk)

(***************************************************************************)
(* LunaAssistant.__init__ and LunaAssistant.run of                         *)
(* luna_assistant/assistant.py.  Its run() is the run() of app/ with a     *)
(* deadline in place of the idle timer and first_command_free in place of  *)
(* free_commands_left, with no test of the assistant's own speech and with *)
(* a speak() that returns right after the playback.  The steps whose code  *)
(* is the same in the two files are the actions above; the others follow.  *)
(***************************************************************************)
\* the wake phrases the sessions are explored under
SimplePhrases == {T_Luna, T_OkLuna}

\* rest.lstrip(" \t\r\n,.:;!?-...") of this _strip_wake_phrase: its set has
\* three more characters, U+00E2, U+20AC and U+201D
LeadingNoiseSimple == LeadingNoise \cup {"U+00E2", "U+20AC", "U+201D"}

\* _strip_wake_phrase of luna_assistant/assistant.py; None is the empty text
StripWakePhraseSimple(text, phrase) ==
    LET t  == Strip(text)
        wp == LowerStr(Strip(phrase))
    IN  IF t = <<>> THEN <<>>
        ELSE IF wp = <<>> THEN t
        ELSE IF ~StartsWith(LowerStr(t), wp) THEN <<>>
        ELSE LStrip(Strip(SubSeq(t, Len(wp) + 1, Len(t))), LeadingNoiseSimple)

\* first_command_free = False, left out
FirstFreeAfterUse_Kept(free) == free

\* first_command_free = False
FirstFreeAfterUse(free) == FALSE

\* Lines 150-169 of run() for the transcript text: what the turn is ("empty",
\* "rejected" for want of the wake phrase, "discarded" as empty after the
\* punctuation, or "command") and the locals after it.
SimpleDecide(text, phrase, free) ==
    LET raw == Strip(text)
        s0  == IF free THEN raw ELSE StripWakePhraseSimple(raw, phrase)
        f1  == IF free THEN FirstFreeAfterUse(free) ELSE free
        s1  == LStrip(s0, LeadingNoise)
    IN  IF raw = <<>> THEN [out |-> "empty", stripped |-> <<>>, free |-> free]
        ELSE IF s0 = <<>> THEN [out |-> "rejected", stripped |-> <<>>, free |-> f1]
        ELSE IF s1 = <<>> THEN [out |-> "discarded", stripped |-> s1, free |-> f1]
        ELSE [out |-> "command", stripped |-> s1, free |-> f1]

\* LunaAssistant(): the awake window is 300 s whatever the environment says.
SimpleBoot(phrase, mode) ==
    /\ pc = "boot"
    /\ pc' = "sleeping"
    /\ awake_window_s' = 300
    /\ wake_phrase' = phrase
    /\ wake_mode' = mode
    /\ UNCHANGED <<error, env_awake, warm_failed, turns, cfg_awake, now,
                   last_luna_cmd_ts, free_commands_left, raw_text, stripped,
                   starts_with_luna, site, calls, turn, p_wake, p_rec, live>>
    /\ UNCHANGED simpleVars
    /\ UNCHANGED notSimple

\* speak(): self.audio.play_wav(...), and the return to the call site.  After
\* the acknowledgment the session starts: deadline = time.time() +
\* self.awake_window_s, first_command_free = True.
SimplePlay(ok, d) ==
    /\ pc = "play"
    /\ now + d <= MaxNow
    /\ now' = now + d
    /\ calls' = Append(calls, "play")
    /\ IF ~ok THEN
            /\ Crash("PlaybackFailed")
            /\ UNCHANGED simpleVars
       ELSE IF site = "ack" THEN
            /\ deadline' = now + d + awake_window_s
            /\ first_command_free' = TRUE
            /\ pc' = "loop"
            /\ error' = error
       ELSE
            /\ pc' = IF site = "reply" THEN "log" ELSE "loop"
            /\ error' = error
            /\ UNCHANGED simpleVars
    /\ UNCHANGED <<env_awake, warm_failed, turns, cfg_awake,
                   wake_phrase, wake_mode, awake_window_s,
                   last_luna_cmd_ts, free_commands_left, raw_text, stripped,
                   starts_with_luna, site, turn, p_wake, p_rec, live>>
    /\ UNCHANGED notSimple

\* while time.time() < deadline holds: record_until_vad_end is called and
\* spawns arecord.
SimpleListen ==
    /\ pc = "loop"
    /\ now < deadline
    /\ pc' = "capturing"
    /\ p_rec' = "alive"
    /\ live' = Spawned(live)
    /\ calls' = <<>>
    /\ raw_text' = <<>>
    /\ stripped' = <<>>
    /\ turn' = [turn EXCEPT !.out = "none",
                            !.free0 = IF first_command_free THEN 1 ELSE 0,
                            !.last0 = deadline, !.prefixed = FALSE, !.log = "none"]
    /\ UNCHANGED <<error, env_awake, warm_failed, turns, cfg_awake,
                   wake_phrase, wake_mode, awake_window_s, now, last_luna_cmd_ts,
                   free_commands_left, starts_with_luna, site, p_wake>>
    /\ UNCHANGED simpleVars
    /\ UNCHANGED notSimple

\* The while condition fails: the session ends, back to wait().
SimpleSleep ==
    /\ pc = "loop"
    /\ ~(now < deadline)
    /\ pc' = "sleeping"
    /\ UNCHANGED <<error, env_awake, warm_failed, turns, cfg_awake,
                   wake_phrase, wake_mode, awake_window_s,
                   now, last_luna_cmd_ts, free_commands_left, raw_text, stripped,
                   starts_with_luna, site, calls, turn, p_wake, p_rec, live>>
    /\ UNCHANGED simpleVars
    /\ UNCHANGED notSimple

\* self.asr.transcribe returns text after d seconds; the turn is decided up
\* to the choice between the memory listing and the LLM.
SimpleTranscribe(text, d) ==
    /\ pc = "asr"
    /\ now + d <= MaxNow
    /\ now' = now + d
    /\ calls' = Append(calls, "asr")
    /\ LET dec == SimpleDecide(text, wake_phrase, first_command_free)
           pre == StartsWith(LowerStr(Strip(text)), LowerStr(Strip(wake_phrase)))
           utt == dec.out # "empty"
       IN
       /\ raw_text' = Strip(text)
       /\ stripped' = dec.stripped
       /\ first_command_free' = dec.free
       /\ pc' = IF dec.out # "command" THEN "loop"
                ELSE IF IsMemoryCommand(dec.stripped) THEN "listing"
                ELSE "chatting"
       /\ turn' = [turn EXCEPT
                      !.out = dec.out,
                      !.prefixed = pre,
                      !.utt = IF utt /\ @ < 3 THEN @ + 1 ELSE @,
                      !.np = IF dec.out = "rejected" /\ @ < 3 THEN @ + 1 ELSE @]
    /\ UNCHANGED <<error, env_awake, warm_failed, turns, cfg_awake,
                   wake_phrase, wake_mode, awake_window_s, last_luna_cmd_ts,
                   free_commands_left, starts_with_luna, site, p_wake, p_rec, live>>
    /\ UNCHANGED deadline
    /\ UNCHANGED notSimple

\* try: self.store.add_turn(TurnRecord(user=stripped, assistant=reply))
\* except Exception: pass, with the store of luna_assistant: the exchange is
\* stored (ok) or an exception is swallowed.
SimpleLog(ok) ==
    /\ pc = "log"
    /\ pc' = "loop"
    /\ turn' = [turn EXCEPT !.log = IF ok THEN "stored" ELSE "swallowed"]
    /\ UNCHANGED <<error, env_awake, warm_failed, turns, cfg_awake, wake_phrase,
                   wake_mode, awake_window_s, now, last_luna_cmd_ts,
                   free_commands_left, raw_text, stripped, starts_with_luna, site,
                   calls, p_wake, p_rec, live>>
    /\ UNCHANGED simpleVars
    /\ UNCHANGED notSimple

SimpleNext ==
    \/ \E phrase \in SimplePhrases, mode \in {"keyboard", "openwakeword"} :
            SimpleBoot(phrase, mode)
    \/ \E present \in BOOLEAN : RunWait(present)
    \/ \E d \in ShortDelays, k \in KillOutcomes : RunWoke(d, k)
    \/ RunQuit
    \/ \E ok \in BOOLEAN, d \in NoDelay : SpeakSynth(ok, d)
    \/ \E ok \in BOOLEAN, d \in ShortDelays : SimplePlay(ok, d)
    \/ SimpleListen
    \/ SimpleSleep
    \/ \E ok \in BOOLEAN, d \in ShortDelays : RecDone(ok, d)
    \/ \E d \in NoDelay : RecRaises(d)
    \/ \E d \in NoDelay : AsrFails(d)
    \/ \E text \in Transcripts, d \in ShortDelays : SimpleTranscribe(text, d)
    \/ \E hp \in BOOLEAN, hr \in BOOLEAN : ListMemories(hp, hr)
    \/ \E ok \in BOOLEAN, d \in LongDelays : Chat(ok, d)
    \/ \E ok \in BOOLEAN : SimpleLog(ok)

(***************************************************************************)
(* MemoryStore (app/memory_store.py): table memories                       *)
(***************************************************************************)
StoreKeys == {"name", "city"}
StoreValues == {"a", "b"}

\* the values of keep_latest the store is opened with, and the limits
\* prune_non_pinned is called with
KeepLatests == {0, 1}
PruneLimits == {-1, 0, 1}

\* how far time.time() moves between two writes
StoreDelays == {0, 1}

\* the limits get_pinned_memories is called with (-1: what int(limit) may
\* be as well), and how far time.time() moves before a read, in units of
\* 15 s
ReadLimits == {-1, 1, 2}
CacheDelays == {0, 1, 2}

\* _pinned_cache_ttl_s = 15.0, in units of 15 s
PinnedCacheTtl == 1

NoOp == [op |-> "none", key |-> "", value |-> "", pinned |-> FALSE, deleted |-> 0]

NoRead == [limit |-> 0, rows |-> <<>>, cached |-> FALSE]

\* _invalidate_cache: _pinned_cache_rows = None, _pinned_cache_ts = 0.0
NoCache == [some |-> FALSE, rows |-> <<>>, ts |-> 0]

\* ORDER BY created_at DESC, id DESC: q comes before r
Newer(q, r) ==
    q.created_at > r.created_at \/ (q.created_at = r.created_at /\ q.id > r.id)

\* KeepNewest with the condition pinned = 0 left out of both queries
KeepNewest_AnyRow(rows, n) ==
    {r \in rows : Cardinality({q \in rows : Newer(q, r)}) < n}

\* The rows left by DELETE ... WHERE pinned = 0 AND id NOT IN (the n first
\* rows WHERE pinned = 0 ORDER BY created_at DESC, id DESC)
KeepNewest(rows, n) ==
    {r \in rows : r.pinned \/ Cardinality({q \in rows : ~q.pinned /\ Newer(q, r)}) < n}

\* EnforceCap with one row more than keep_latest kept
EnforceCap_OneMore(rows, n) == IF n <= 0 THEN rows ELSE KeepNewest(rows, n + 1)

\* _enforce_non_pinned_cap
EnforceCap(rows, n) == IF n <= 0 THEN rows ELSE KeepNewest(rows, n)

\* upsert_memory(key, value, pinned=pinned) at a time dt after the last write,
\* called directly or, with pinned=True, by pin_memory:
\* INSERT ... ON CONFLICT(k, pinned) DO UPDATE, then the cap when not pinned
Upsert(key, value, pinned, dt) ==
    /\ UNCHANGED notStore
    /\ st_writes < MaxWrites
    /\ st_writes' = st_writes + 1
    /\ LET t   == st_clock + dt
           hit == {r \in memories : r.k = key /\ r.pinned = pinned}
           written ==
               IF hit # {} THEN
                   (memories \ hit) \cup {[r EXCEPT !.created_at = t, !.v = value] : r \in hit}
               ELSE
                   memories \cup {[id |-> next_id, k |-> key, v |-> value,
                                   pinned |-> pinned, created_at |-> t]}
           kept == IF pinned THEN written ELSE EnforceCap(written, keep_latest)
       IN
       /\ memories' = kept
       /\ next_id' = IF hit = {} THEN next_id + 1 ELSE next_id
       /\ st_clock' = t
       /\ st_op' = [op |-> "upsert", key |-> key, value |-> value, pinned |-> pinned,
                    deleted |-> Cardinality(written \ kept)]
    /\ pinned_cache' = NoCache
    /\ UNCHANGED <<keep_latest, st_reads, st_read>>

\* unpin_memory(key)
Unpin(key) ==
    /\ UNCHANGED notStore
    /\ LET kept == {r \in memories : ~(r.k = key /\ r.pinned)} IN
       /\ memories' = kept
       /\ st_op' = [op |-> "unpin", key |-> key, value |-> "", pinned |-> TRUE,
                    deleted |-> Cardinality(memories \ kept)]
    /\ pinned_cache' = NoCache
    /\ UNCHANGED <<next_id, st_clock, st_writes, keep_latest, st_reads, st_read>>

\* forget_memory(key)
Forget(key) ==
    /\ UNCHANGED notStore
    /\ LET kept == {r \in memories : r.k # key} IN
       /\ memories' = kept
       /\ st_op' = [op |-> "forget", key |-> key, value |-> "", pinned |-> FALSE,
                    deleted |-> Cardinality(memories \ kept)]
    /\ pinned_cache' = NoCache
    /\ UNCHANGED <<next_id, st_clock, st_writes, keep_latest, st_reads, st_read>>

\* prune_non_pinned(limit); deleted is what it returns.  With nothing to
\* delete it returns before the commit and the cache invalidation.
Prune(limit) ==
    /\ UNCHANGED notStore
    /\ LET kept == KeepNewest(memories, Max(0, limit)) IN
       /\ memories' = kept
       /\ st_op' = [op |-> "prune", key |-> "", value |-> "", pinned |-> FALSE,
                    deleted |-> Cardinality(memories \ kept)]
       /\ pinned_cache' = IF kept = memories THEN pinned_cache ELSE NoCache
    /\ UNCHANGED <<next_id, st_clock, st_writes, keep_latest, st_reads, st_read>>

\* the rows, newest first (ORDER BY created_at DESC, id DESC; every row is
\* written with the default score 1.0)
RECURSIVE NewestFirst(_)
NewestFirst(rows) ==
    IF rows = {} THEN <<>>
    ELSE LET r == CHOOSE x \in rows : \A q \in rows \ {x} : Newer(x, q)
         IN  <<r>> \o NewestFirst(rows \ {r})

\* LIMIT n of SQLite: the first n rows, all of them when n is negative
SqlLimit(rows, n) ==
    IF n < 0 \/ n >= Len(rows) THEN rows ELSE SubSeq(rows, 1, n)

\* rows[:n] of Python: the first n rows, all but the last -n when n is negative
PySlice(rows, n) ==
    IF n >= 0 THEN (IF n >= Len(rows) THEN rows ELSE SubSeq(rows, 1, n))
    ELSE SubSeq(rows, 1, Max(0, Len(rows) + n))

\* SELECT ... FROM memories WHERE pinned = 1
\* ORDER BY score DESC, created_at DESC, id DESC LIMIT ?
SelectPinned(rows, limit) ==
    SqlLimit(NewestFirst({r \in rows : r.pinned}), limit)

\* get_pinned_memories(limit) at a time dt after the last call: the cached
\* rows cut to the limit while the cache is set and not older than the ttl,
\* otherwise the rows of the query, which become the cache.
GetPinnedMemories(limit, dt) ==
    /\ UNCHANGED notStore
    /\ st_reads < MaxReads
    /\ st_reads' = st_reads + 1
    /\ LET t    == st_clock + dt
           hit  == pinned_cache.some /\ (t - pinned_cache.ts) <= PinnedCacheTtl
           rows == IF hit THEN PySlice(pinned_cache.rows, limit)
                   ELSE SelectPinned(memories, limit)
       IN
       /\ st_clock' = t
       /\ pinned_cache' = IF hit THEN pinned_cache
                          ELSE [some |-> TRUE, rows |-> rows, ts |-> t]
       /\ st_read' = [limit |-> limit, rows |-> rows, cached |-> hit]
    /\ UNCHANGED <<memories, next_id, st_writes, keep_latest, st_op>>

\* MemoryStore(db_path) on a new database, left alone
StoreIdle ==
    /\ memories = {}
    /\ next_id = 1
    /\ st_clock = 0
    /\ st_writes = 0
    /\ keep_latest = 500
    /\ st_op = NoOp
    /\ pinned_cache = NoCache
    /\ st_reads = 0
    /\ st_read = NoRead

\* MemoryStore(db_path, keep_latest) on a new database
StoreInit ==
    /\ memories = {}
    /\ next_id = 1
    /\ st_clock = 0
    /\ st_writes = 0
    /\ keep_latest \in KeepLatests
    /\ st_op = NoOp
    /\ pinned_cache = NoCache
    /\ st_reads = 0
    /\ st_read = NoRead

StoreNext ==
    \/ \E key \in StoreKeys, value \in StoreValues, pinned \in BOOLEAN, dt \in StoreDelays :
            Upsert(key, value, pinned, dt)
    \/ \E key \in StoreKeys : Unpin(key)
    \/ \E key \in StoreKeys : Forget(key)
    \/ \E limit \in PruneLimits : Prune(limit)

SegInit ==
    /\ seg_pc = "idle"
    /\ cfg \in SegConfigs
    /\ stream = <<>>
    /\ ring = <<>>
    /\ captured = <<>>
    /\ speech_started = FALSE
    /\ speech_frames = 0
    /\ silence_frames = 0
    /\ elapsed = 0
    /\ p_rec = "none"
    /\ seg_end = "none"
    /\ seg_result = "none"
    /\ wav_written = FALSE
    /\ source = <<>>
    /\ prev = NoRun

SegNext ==
    \/ SegCall
    \/ SegCap
    \/ SegShort
    \/ SegVadError
    \/ \E f \in Frames, d \in ReadDelays(cfg) : SegFrame(f, d)

InitSeg == SegInit /\ WakeIdle /\ wake_mode = "openwakeword" /\ RunIdle /\ StoreIdle /\ KbIdle

\* Replay: the same finite frame stream is put through record_until_vad_end
\* twice with the same arguments; only the time the reads take may differ.
ReplayConfigs ==
    [rate : {16000}, channels : {1}, frame_ms : {20},
     start_trigger_ms : {40}, end_trigger_ms : {20, 60},
     pre_roll_ms : {0, 40}, max_ms : {70, 1000},
     min_speech_ms : {70}, min_rms : {8}]

\* the finite frame streams
Sources == UNION {[1..n -> Frames] : n \in 0..MaxFrames}

\* the first call
ReplayFirst ==
    /\ seg_pc = "idle"
    /\ SegCall

\* the second call, made when the first has returned
ReplayAgain ==
    /\ seg_pc = "done"
    /\ prev = NoRun
    /\ SegEnter
    /\ prev' = [end |-> seg_end, result |-> seg_result, captured |-> captured,
                read |-> Len(stream), wav |-> wav_written]

\* the next frame of the stream is read in d ms
ReplayFrame(d) ==
    /\ Len(stream) < Len(source)
    /\ SegFrame(source[Len(stream) + 1], d)

\* the stream is exhausted: the read comes back empty
ReplayShort ==
    /\ Len(stream) = Len(source)
    /\ SegShort

ReplayNext ==
    \/ ReplayFirst
    \/ ReplayAgain
    \/ \E d \in ReadDelays(cfg) : ReplayFrame(d)
    \/ ReplayShort
    \/ SegCap

InitReplay ==
    /\ seg_pc = "idle"
    /\ cfg \in ReplayConfigs
    /\ source \in Sources
    /\ prev = NoRun
    /\ stream = <<>>
    /\ ring = <<>>
    /\ captured = <<>>
    /\ speech_started = FALSE
    /\ speech_frames = 0
    /\ silence_frames = 0
    /\ elapsed = 0
    /\ p_rec = "none"
    /\ seg_end = "none"
    /\ seg_result = "none"
    /\ wav_written = FALSE
    /\ WakeIdle
    /\ wake_mode = "openwakeword"
    /\ RunIdle
    /\ StoreIdle
    /\ KbIdle

SpecReplay == InitReplay /\ [][ReplayNext]_vars

SpecSeg == InitSeg /\ [][SegNext]_vars

\* the arguments record_until_vad_end declares as defaults, with the values
\* scaled as in SegConfigs
SegIdle ==
    /\ SegInit
    /\ cfg = [rate |-> 16000, channels |-> 1, frame_ms |-> 20,
              start_trigger_ms |-> 40, end_trigger_ms |-> 20, pre_roll_ms |-> 40,
              max_ms |-> 1000, min_speech_ms |-> 70, min_rms |-> 8]

InitWake == WakeIdle /\ wake_mode \in WakeModes /\ SegIdle /\ RunIdle /\ StoreIdle /\ KbIdle

SpecWake == InitWake /\ [][WakeNext]_vars

Init == RunIdle /\ WakeIdle /\ wake_mode = "keyboard" /\ SegIdle /\ StoreIdle /\ KbIdle

Spec == Init /\ [][Next]_vars

\* run() under one environment (a window of 90 s, the default wake phrase,
\* mode "keyboard") and over fewer transcripts, with every call returning
\* sooner or later and, while captures are made over and over, with captures
\* that take time over and over.
LiveTranscripts == {T_Empty, T_SelfSpeech, T_WhatTime, T_LunaRemember, T_ListMemories}

LiveNext ==
    \/ Boot(E_90, T_Empty, "keyboard", {})
    \/ \E present \in BOOLEAN : RunWait(present)
    \/ \E d \in ShortDelays, k \in KillOutcomes : RunWoke(d, k)
    \/ RunQuit
    \/ \E ok \in BOOLEAN, d \in NoDelay : SpeakSynth(ok, d)
    \/ \E ok \in BOOLEAN, d \in ShortDelays : SpeakPlay(ok, d)
    \/ \E d \in NoDelay : SpeakGuard(d)
    \/ Listen
    \/ GoToSleep
    \/ \E ok \in BOOLEAN, d \in ShortDelays : RecDone(ok, d)
    \/ \E d \in NoDelay : RecRaises(d)
    \/ \E d \in NoDelay : AsrFails(d)
    \/ \E text \in LiveTranscripts, d \in ShortDelays : Transcribe(text, d)
    \/ \E hp \in BOOLEAN, hr \in BOOLEAN : ListMemories(hp, hr)
    \/ \E ok \in BOOLEAN, d \in LongDelays : Chat(ok, d)
    \/ \E storeOk \in BOOLEAN : LogTurn(storeOk)

\* a capture reads its frames in real time: one that spans a tick of the clock
CaptureTakesTime == \E ok \in BOOLEAN : RecDone(ok, Tick)

InitLive == RunIdle /\ WakeIdle /\ wake_mode = "keyboard" /\ SegIdle /\ StoreIdle /\ KbIdle

FairSpec == InitLive /\ [][LiveNext]_vars /\ WF_vars(LiveNext) /\ SF_vars(CaptureTakesTime)

\* The start of the program under every environment, up to the first
\* acknowledgment.
BootNext ==
    \/ \E ea \in AwakeEnvValues, ewp \in WakePhraseEnvValues, mode \in WakeModes,
          wf \in SUBSET WarmupCalls :
            Boot(ea, ewp, mode, wf)
    \/ \E present \in BOOLEAN : RunWait(present)
    \/ \E d \in ShortDelays, k \in KillOutcomes : RunWoke(d, k)
    \/ RunQuit

InitBoot == RunIdle /\ WakeIdle /\ wake_mode = "keyboard" /\ SegIdle /\ StoreIdle /\ KbIdle

SpecBoot == InitBoot /\ [][BootNext]_vars

\* The operations of a MemoryStore on a new database, in any order.
InitStore == RunIdle /\ WakeIdle /\ wake_mode = "keyboard" /\ SegIdle /\ StoreInit /\ KbIdle

SpecStore == InitStore /\ [][StoreNext]_vars

\* run() of luna_assistant/assistant.py
InitSimple == RunIdle /\ WakeIdle /\ wake_mode = "keyboard" /\ SegIdle /\ StoreIdle /\ KbIdle

SpecSimple == InitSimple /\ [][SimpleNext]_vars

\* KnowledgeBase alone, under ingest_text, rebuild_index and retrieve
InitKb == RunIdle /\ WakeIdle /\ wake_mode = "keyboard" /\ SegIdle /\ StoreIdle /\ KbIdle

SpecKb == InitKb /\ [][KbNext]_vars

\* MemoryStore with keep_latest = 1 under its writes and get_pinned_memories;
\* the clock moves between the reads only
StoreReadNext ==
    \/ \E key \in StoreKeys, pinned \in BOOLEAN : Upsert(key, "a", pinned, 0)
    \/ \E key \in StoreKeys : Unpin(key)
    \/ \E key \in StoreKeys : Forget(key)
    \/ Prune(0)
    \/ \E limit \in ReadLimits, dt \in CacheDelays : GetPinnedMemories(limit, dt)

InitStoreRead == RunIdle /\ WakeIdle /\ wake_mode = "keyboard" /\ SegIdle /\ StoreInit
                 /\ keep_latest = 1 /\ KbIdle

SpecStoreRead == InitStoreRead /\ [][StoreReadNext]_vars

(***************************************************************************)
(* Properties of WakeWord.wait (SpecWake)                                  *)
(***************************************************************************)
\* C1: any two successive firings of the streaming detector are at least
\* refractory_s apart.
C1_FiringsRefractoryApart ==
    \A i \in 1..(Len(fires) - 1) : fires[i + 1] - fires[i] >= RefractoryMs

\* C11: when a call that spawned a capture process has returned or raised,
\* that process has been killed and reaped, in record_until_vad_end and in
\* _wait_openwakeword alike.
C11_CaptureReapedOnExit ==
    /\ wk_pc \in {"returned", "raised"} => p_wake \in {"none", "reaped"}
    /\ seg_pc \in {"done", "raised"} => p_rec \in {"none", "reaped"}

\* C12, as claimed: in mode "keyboard" wait() returns Quit exactly when the
\* line is "quit" in any letter case, and Woke for every other line.
C12_QuitTokenEndsKeyboardWait ==
    (wake_mode = "keyboard" /\ wk_pc = "returned") =>
        /\ wk_result \in {"quit", "woke"}
        /\ wk_result = "quit" <=> LowerStr(wk_line) = L_quit

\* C12, amended: in mode "keyboard" wait() returns Quit exactly when the line
\* without its surrounding whitespace is "q" or "Q", and Woke for every other
\* line, the empty line and "quit" included.
C12_QLineEndsKeyboardWait ==
    (wake_mode = "keyboard" /\ wk_pc = "returned") =>
        /\ wk_result \in {"quit", "woke"}
        /\ wk_result = "quit" <=> wk_line \in {L_q, L_Q, L_QSpaced}
        /\ wk_result = "woke" <=> wk_line \in {<<>>, L_quit, L_QUIT, L_x}

\* C12's case: the operator typed "Q" and wait() returned Quit.
C12_Witness ==
    /\ wake_mode = "keyboard"
    /\ wk_pc = "returned"
    /\ wk_line = L_Q
    /\ wk_result = "quit"

\* C13: in mode "cmd" wait() never returns Quit; while every exit code so far
\* is nonzero it is still invoking the command, and it returns, Woke, exactly
\* on the first exit code 0.
C13_CmdReturnsAtFirstZero ==
    wake_mode = "cmd" =>
        /\ wk_result # "quit"
        /\ wk_pc = "returned" =>
                /\ wk_result = "woke"
                /\ wk_rcs # <<>>
                /\ wk_rcs[Len(wk_rcs)] = 0
                /\ \A i \in 1..(Len(wk_rcs) - 1) : wk_rcs[i] # 0
        /\ wk_pc = "running" => \A i \in 1..Len(wk_rcs) : wk_rcs[i] # 0
        /\ wk_pc = "raised" => (wk_rcs = <<>> /\ wk_result = "ValueError")
        /\ (wk_rcs # <<>> /\ wk_rcs[Len(wk_rcs)] = 0) => wk_pc = "returned"

\* C13's case: the command exited 1, was ended by a signal, then exited 0.
C13_Witness ==
    /\ wake_mode = "cmd"
    /\ wk_pc = "returned"
    /\ wk_result = "woke"
    /\ wk_rcs = <<1, -9, 0>>

\* C14: in mode "openwakeword" wait() never returns Quit; it returns Woke only
\* on a block whose score is at least the threshold and that comes at least
\* refractory_s after the previous firing, and it passes over no such block;
\* a first firing needs the score alone.
C14_FiresAtFirstEligibleBlock ==
    wake_mode = "openwakeword" =>
        /\ wk_result # "quit"
        /\ wk_pc = "returned" =>
                /\ wk_result = "woke"
                /\ wk_score >= Threshold
                /\ fires # <<>>
                /\ Len(fires) >= 2 =>
                        fires[Len(fires)] - fires[Len(fires) - 1] >= RefractoryMs
        /\ (wk_pc = "listening" /\ wk_score >= 0) =>
                ~(/\ wk_score >= Threshold
                  /\ fires # <<>> => wclock - fires[Len(fires)] >= RefractoryMs)

(***************************************************************************)
(* Properties of record_until_vad_end (SpecSeg)                            *)
(***************************************************************************)
\* st is nv voiced frames followed by ns unvoiced frames
VoiceThenSilence(st, nv, ns) ==
    /\ Len(st) = nv + ns
    /\ \A i \in 1..Len(st) : st[i].v <=> (i <= nv)

\* the stream read is exactly start_trigger_frames voiced frames followed by
\* end_trigger_frames unvoiced frames
TriggerStream ==
    /\ seg_pc \in {"loop", "done"}
    /\ VoiceThenSilence(stream, start_trigger_frames(cfg), end_trigger_frames(cfg))

\* C4, as claimed: over a stream of start_trigger_frames voiced frames followed
\* by end_trigger_frames unvoiced frames, the capture holds all
\* start_trigger_frames + end_trigger_frames frames of the stream, preceded by
\* at most pre_roll_frames frames of pre-roll.
C4_AllTriggerFramesCaptured ==
    TriggerStream =>
        /\ Len(captured) >= Len(stream)
        /\ Len(captured) <= Len(stream) + pre_roll_frames(cfg)
        /\ \A i \in 1..Len(stream) : i \in Range(captured)

\* C4, amended: over that stream the capture ends on the silence trigger and
\* holds the last min(start_trigger_frames, max(pre_roll_frames, 1)) voiced
\* frames (the ring at the trigger) followed by the end_trigger_frames unvoiced
\* frames, in stream order.
C4_RingThenSilenceCaptured ==
    TriggerStream =>
        LET nv   == start_trigger_frames(cfg)
            ns   == end_trigger_frames(cfg)
            room == Max(pre_roll_frames(cfg), 1)
            kept == IF nv <= room THEN nv ELSE room
        IN  /\ seg_pc = "done"
            /\ seg_end = "silence"
            /\ captured = [j \in 1..(kept + ns) |-> nv - kept + j]

\* C4's case: the trigger stream was read with a pre-roll shorter than the
\* start trigger, and voiced frames of the stream are missing from the capture.
C4_Witness ==
    /\ TriggerStream
    /\ seg_pc = "done"
    /\ 0 < pre_roll_frames(cfg)
    /\ pre_roll_frames(cfg) < start_trigger_frames(cfg)
    /\ Len(captured) < Len(stream)

\* the stream read so far is k < start_trigger_frames voiced frames followed
\* only by unvoiced frames
BelowStartStream ==
    /\ seg_pc \in {"loop", "done"}
    /\ \E k \in 0..(start_trigger_frames(cfg) - 1) :
            VoiceThenSilence(stream, k, Len(stream) - k)

\* C6: while the stream is k < start_trigger_frames voiced frames followed only
\* by unvoiced frames, speech never starts and nothing is captured; a finished
\* call returned False without writing audio, and once max_seconds has elapsed
\* the next loop iteration ends the call with False.
C6_BelowStartNeverStarts ==
    /\ [](BelowStartStream =>
            /\ ~speech_started
            /\ captured = <<>>
            /\ (seg_pc = "done" => seg_result = "false" /\ ~wav_written))
    /\ [][(BelowStartStream /\ seg_pc = "loop" /\ elapsed > cfg.max_ms)
            => (seg_pc' = "done" /\ seg_result' = "false" /\ stream' = stream)]_vars

\* C6's case: voiced frames below the start trigger, then unvoiced ones, and
\* the call ended on the max_seconds cap.
C6_Witness ==
    /\ BelowStartStream
    /\ seg_pc = "done"
    /\ seg_end = "cap"
    /\ Len(stream) >= 3
    /\ stream[1].v
    /\ start_trigger_frames(cfg) >= 2

\* C7: a finished call returned True exactly when something was captured whose
\* duration is at least min_speech_ms and whose rms is at least min_rms, on
\* every terminal path; it wrote the output audio exactly when it returned True.
C7_SegmentOnlyIfLongAndLoud ==
    seg_pc = "done" =>
        /\ seg_end \in {"cap", "short", "silence"}
        /\ seg_result \in {"true", "false"}
        /\ seg_result = "true" <=>
                /\ captured # <<>>
                /\ Len(captured) * cfg.frame_ms >= cfg.min_speech_ms
                /\ ~TooQuiet(captured, stream, cfg)
        /\ wav_written <=> seg_result = "true"

\* C7's case: start and end were triggered by the VAD, and the capture was
\* rejected for being long enough but too quiet.
C7_Witness ==
    /\ seg_pc = "done"
    /\ seg_end = "silence"
    /\ captured # <<>>
    /\ ~TooShort(captured, cfg)
    /\ TooQuiet(captured, stream, cfg)
    /\ seg_result = "false"

(***************************************************************************)
(* Properties of LunaAssistant.run (Spec) and of the start-up (SpecBoot)   *)
(***************************************************************************)
\* the transcript of the current turn passed the empty and self-speech tests,
\* and no time has passed since
JustDecided ==
    \/ turn.out = "command" /\ pc \in {"listing", "chatting"}
    \/ turn.out = "discarded" /\ pc = "loop"

\* raw_text without the wake phrase and the punctuation and whitespace after it
AfterWakePhrase ==
    LStrip(SubSeq(raw_text, Len(wake_phrase) + 1, Len(raw_text)), LeadingNoise)

\* C2, as claimed: among the utterances of a session the first two that do not
\* start with the wake phrase are accepted as commands and leave the idle
\* timer alone, and the third one is discarded with no collaborator called
\* after the transcription.
C2_FirstTwoUnprefixedAccepted ==
    (JustDecided /\ ~turn.prefixed) =>
        IF turn.np <= 2
        THEN turn.out = "command" /\ last_luna_cmd_ts = turn.last0
        ELSE turn.out = "discarded" /\ calls = <<"asr">> /\ pc = "loop"

\* C2, amended: each of the first two utterances of a session, prefixed or
\* not, uses up one free command.  An utterance that does not start with the
\* wake phrase is accepted exactly when it is one of those first two and text
\* remains after its leading punctuation; accepted or not it leaves the idle
\* timer alone, and when it is not accepted no collaborator is called after
\* the transcription.
C2_FirstTwoUtterancesFree ==
    JustDecided =>
        /\ turn.free0 = Max(0, 3 - turn.utt)
        /\ free_commands_left = Max(0, turn.free0 - 1)
        /\ ~turn.prefixed =>
            /\ turn.out = "command" <=>
                    (turn.utt <= 2 /\ LStrip(raw_text, LeadingNoise) # <<>>)
            /\ last_luna_cmd_ts = turn.last0
            /\ ~starts_with_luna
            /\ turn.out = "discarded" => (calls = <<"asr">> /\ pc = "loop")

\* C2's case: the third utterance without the wake phrase, after two that were
\* accepted, was discarded.
C2_Witness ==
    /\ JustDecided
    /\ ~turn.prefixed
    /\ turn.np = 3
    /\ turn.utt = 3
    /\ raw_text = T_WhatTime
    /\ turn.out = "discarded"

\* C3, as claimed: whatever free_commands_left is, a transcript that starts
\* with the wake phrase becomes the command made of the transcript without the
\* wake phrase and the punctuation and whitespace after it, and resets the
\* idle timer to the current time.
C3_PrefixedStrippedAndResets ==
    (turn.prefixed /\ (JustDecided \/ (turn.out = "self" /\ pc = "loop"))) =>
        /\ turn.out = "command"
        /\ stripped = AfterWakePhrase
        /\ starts_with_luna
        /\ last_luna_cmd_ts = now

\* C3, amended: a transcript that starts with the wake phrase and is not
\* self-speech becomes a command and resets the idle timer to the current
\* time, unless nothing but punctuation follows the wake phrase when no free
\* command is left (then it is discarded and the timer is left alone).  The
\* command text is the transcript without the wake phrase and the punctuation
\* after it only when no free command is left; while free commands are left
\* it is the transcript itself, wake phrase included.
C3_PrefixedStrippedOnlyWhenNoFreeLeft ==
    (JustDecided /\ turn.prefixed) =>
        LET body == IF turn.free0 > 0 THEN raw_text ELSE AfterWakePhrase IN
        /\ IF body = <<>>
           THEN /\ turn.out = "discarded"
                /\ last_luna_cmd_ts = turn.last0
           ELSE /\ turn.out = "command"
                /\ stripped = body
                /\ starts_with_luna
                /\ last_luna_cmd_ts = now
        /\ (wake_phrase = T_Luna /\ raw_text = T_LunaRemember /\ turn.free0 = 0)
                => stripped = T_RememberBob

\* C3's case: with no free command left, "Luna, remember my name is Bob"
\* became the command "remember my name is Bob".
C3_Witness ==
    /\ JustDecided
    /\ wake_phrase = T_Luna
    /\ turn.free0 = 0
    /\ raw_text = T_LunaRemember
    /\ stripped = T_RememberBob
    /\ last_luna_cmd_ts = now
    /\ now > turn.last0

\* C18: a call whose frame duration is not 10, 20 or 30 ms, whose channel
\* count is not 1 or whose rate is not 16000 raises ValueError with no
\* capture process spawned and no frame read.
C18_BadArgumentsRaiseBeforeCapture ==
    (seg_pc # "idle" /\ (\/ cfg.frame_ms \notin {10, 20, 30}
                         \/ cfg.channels # 1
                         \/ cfg.rate # 16000)) =>
        /\ seg_pc = "raised"
        /\ seg_result = "ValueError"
        /\ p_rec = "none"
        /\ live = 0
        /\ stream = <<>>
        /\ captured = <<>>
        /\ ~wav_written

\* C18's case: a call at 8000 Hz, its other arguments valid, has raised.
C18_Witness ==
    /\ seg_pc = "raised"
    /\ seg_result = "ValueError"
    /\ cfg.rate = 8000
    /\ cfg.channels = 1
    /\ cfg.frame_ms = 20

\* C19: a short or empty read ends the call without an exception and adds
\* nothing to the capture; the call returns True exactly when the capture is
\* non-empty, at least min_speech_ms long and at least min_rms loud, and
\* writes the audio exactly then.
C19_ShortReadEndsLikeAnyOther ==
    /\ [](seg_end = "short" =>
            /\ seg_pc = "done"
            /\ p_rec = "reaped"
            /\ seg_result \in {"true", "false"}
            /\ seg_result = "true" <=>
                    /\ captured # <<>>
                    /\ Len(captured) * cfg.frame_ms >= cfg.min_speech_ms
                    /\ ~TooQuiet(captured, stream, cfg)
            /\ wav_written <=> seg_result = "true")
    /\ [][(seg_end # "short" /\ seg_end' = "short") =>
            (captured' = captured /\ stream' = stream)]_vars

\* C19's case: the source ran out during speech and what was captured until
\* then was returned as a segment.
C19_Witness ==
    /\ seg_pc = "done"
    /\ seg_end = "short"
    /\ speech_started
    /\ silence_frames = 0
    /\ seg_result = "true"
    /\ Len(stream) < MaxFrames

\* C20: reads take at least a frame's time, so a call still in its loop has
\* read at most one frame more than fit into max_seconds; an iteration that
\* starts after max_seconds reads nothing and ends the call, waiting for
\* speech or in speech; and a call that ended has the one result True or
\* False.
C20_CapBoundsTheLoop ==
    /\ [](seg_pc = "loop" => (Len(stream) - 1) * cfg.frame_ms <= cfg.max_ms)
    /\ [](seg_pc = "done" => seg_result \in {"true", "false"})
    /\ [][(seg_pc = "loop" /\ elapsed > cfg.max_ms) =>
            (seg_pc' = "done" /\ seg_end' = "cap" /\ stream' = stream
             /\ captured' = captured)]_vars

\* C20's case: every frame was voiced, speech had started, and the call was
\* ended by the cap.
C20_Witness ==
    /\ seg_pc = "done"
    /\ seg_end = "cap"
    /\ speech_started
    /\ Len(stream) >= 3
    /\ \A i \in 1..Len(stream) : stream[i].v
    /\ seg_result = "true"

\* C21: in speech the silence counter never passes end_trigger_frames and
\* the call has ended on silence exactly when the counter is there; the
\* counter counts unvoiced frames at the end of the capture, so the last
\* end_trigger_frames captured frames of a capture ended on silence are all
\* unvoiced; and a voiced frame read in speech puts the counter back to 0 and
\* leaves the call in its loop.
C21_SilenceEndsAfterTriggerFrames ==
    /\ [](speech_started =>
            /\ silence_frames <= end_trigger_frames(cfg)
            /\ (seg_end = "silence") <=> (silence_frames = end_trigger_frames(cfg))
            /\ silence_frames < Len(captured)
            /\ \A j \in 1..Len(captured) :
                   j > Len(captured) - silence_frames => ~stream[captured[j]].v)
    /\ [](seg_end = "silence" => speech_started /\ seg_pc = "done")
    /\ [][(speech_started /\ Len(stream') = Len(stream) + 1
           /\ stream'[Len(stream')].v) =>
            (silence_frames' = 0 /\ seg_pc' = "loop")]_vars

\* C21's case: with end_trigger_frames = 2, speech started, one silent
\* frame, a voiced frame that put the counter back, and then the two silent
\* frames that ended the call.
C21_Witness ==
    /\ seg_end = "silence"
    /\ end_trigger_frames(cfg) = 2
    /\ Len(stream) = 5
    /\ stream[1].v /\ ~stream[2].v /\ stream[3].v /\ ~stream[4].v /\ ~stream[5].v
    /\ Len(captured) >= 4

\* both calls of a replay have returned
Replayed == seg_pc = "done" /\ prev # NoRun

\* C17, as claimed: the two calls of a replay return the same value, and when
\* that is True they captured the same frames.
C17_ReplayGivesSameOutcome ==
    Replayed =>
        /\ seg_result = prev.result
        /\ seg_result = "true" => captured = prev.captured

\* C17, amended: when neither call of a replay is ended by the max_seconds
\* cap, both read the same number of frames; and two calls that read the same
\* number of frames return the same value, captured the same frames and wrote
\* the audio alike.
C17_ReplaySameUnlessCapped ==
    Replayed =>
        /\ (seg_end # "cap" /\ prev.end # "cap") => Len(stream) = prev.read
        /\ Len(stream) = prev.read =>
                /\ seg_result = prev.result
                /\ captured = prev.captured
                /\ wav_written = prev.wav

\* C17's case: both calls of a replay ended on the silence trigger with a
\* segment.
C17_Witness ==
    /\ Replayed
    /\ seg_end = "silence"
    /\ prev.end = "silence"
    /\ seg_result = "true"
    /\ prev.result = "true"
    /\ Len(captured) >= 3

\* Sleeping: before and during wait(); Awake: from the Woke to the end of the
\* session
Sleeping == pc \in {"sleeping", "waiting"}
Awake == pc \in {"synth", "play", "guard", "loop", "capturing", "asr", "listing",
                 "chatting", "log"}

\* C15: a session is entered only when wait() has returned Woke, is left
\* for Sleeping only from the loop test with the idle time at or past the
\* awake window, and is followed by nothing but a new wait(); run() returns
\* only from a wait() that returned Quit.
C15_LoopMovesOnlyByWokeDeadlineQuit ==
    [][ /\ (Awake' /\ ~Awake) => (pc = "waiting" /\ pc' = "synth" /\ site' = "ack")
        /\ (Awake /\ ~Awake' /\ pc' # "crashed") =>
                /\ pc = "loop"
                /\ pc' = "sleeping"
                /\ now - last_luna_cmd_ts >= awake_window_s
        /\ (Sleeping /\ ~Sleeping') => pc = "waiting" \/ pc' = "crashed"
        /\ pc' = "terminated" => (pc = "waiting" /\ wake_mode = "keyboard")
        /\ pc = "sleeping" => pc' \in {"waiting", "crashed"}
        /\ pc \in {"terminated", "crashed"} => pc' = pc
      ]_vars

\* C15's case: a session with an utterance in it has ended and wait() has been
\* invoked again.
C15_Witness ==
    /\ pc = "waiting"
    /\ turn.utt >= 1
    /\ now - last_luna_cmd_ts >= awake_window_s

\* the idle timer has just been reset by a command that starts with the wake
\* phrase
JustReset ==
    /\ pc \in {"listing", "chatting"}
    /\ starts_with_luna
    /\ last_luna_cmd_ts = now

\* C16: a session at its loop test (with the end of its window within the
\* time explored) goes on to the end of the session followed by a new wait(),
\* unless a command that starts with the wake phrase resets the idle timer
\* first or an exception ends the program.
C16_IdleSessionEnds ==
    (pc = "loop" /\ last_luna_cmd_ts + awake_window_s + Tick <= MaxNow)
        ~> (pc = "waiting" \/ pc = "crashed" \/ JustReset)

\* C16's case: a session in which a command without the wake phrase was
\* accepted has run out of its window and ended.
C16_Witness ==
    /\ pc = "sleeping"
    /\ turn.np >= 1
    /\ turn.out = "command"
    /\ ~turn.prefixed
    /\ now - last_luna_cmd_ts >= awake_window_s

\* the exceptions of the per-turn collaborators: ASR, LLM, TTS and playback
CollaboratorErrors ==
    {"TranscriptionFailed", "ChatRequestFailed", "SynthesisFailed", "PlaybackFailed"}

\* C5: an exception a collaborator raises during a turn (from the
\* transcription on) does not end run().
C5_CollaboratorFailureKeepsLoop ==
    (error \in CollaboratorErrors /\ "asr" \in Range(calls)) => pc # "crashed"

\* C8: once the configuration has been read, the effective awake window is
\* the configured value when that is a number of at least 60, and 300
\* otherwise, unparsable values included.
C8_WindowClampedForEveryValue ==
    pc # "boot" =>
        LET parsed == ParseFloat(env_awake) IN
        awake_window_s = IF parsed.ok /\ parsed.val >= 60 THEN parsed.val ELSE 300

\* the phrases of the memory listing
ListingPhrases == {T_CmdListMemories, T_CmdMemories, T_CmdShowMemories}

\* C9: in a turn whose command text is, case-insensitively, one of the memory
\* listing phrases, the LLM is not called; the memory store is read and the
\* answer spoken is the listing or the no-memories notice.
C9_MemoryListingNeverCallsLlm ==
    (turn.out = "command" /\ LowerStr(Strip(stripped)) \in ListingPhrases) =>
        /\ "llm" \notin Range(calls)
        /\ pc \notin {"chatting", "log"}
        /\ pc \notin {"listing", "crashed"} =>
                /\ "store" \in Range(calls)
                /\ site \in {"none_stored", "listing"}

\* C9's case: "List Memories" was answered with the no-memories notice.
C9_Witness ==
    /\ turn.out = "command"
    /\ stripped = T_ListMemories
    /\ pc = "loop"
    /\ site = "none_stored"
    /\ calls = <<"asr", "store", "tts", "play">>

Acknowledging == site = "ack" /\ pc \in {"synth", "play", "guard"}

\* C22: a wait that returns True is followed by speak("Luna is listening.")
\* and nothing else; while the acknowledgment is spoken no capture is started;
\* and when speak returns the session starts with the idle timer at the
\* present time and two free commands, whatever the session before left.
C22_AckThenFreshSession ==
    /\ [][(pc = "waiting" /\ pc' # "waiting") =>
            (pc' = "terminated" \/ (pc' = "synth" /\ site' = "ack" /\ calls' = <<>>))]_vars
    /\ [][Acknowledging =>
            /\ p_rec' = p_rec
            /\ pc' \in {pc, "crashed", IF pc = "synth" THEN "play"
                                       ELSE IF pc = "play" THEN "guard" ELSE "loop"}
            /\ pc' = "loop" =>
                   /\ calls' = <<"tts", "play">>
                   /\ last_luna_cmd_ts' = now'
                   /\ free_commands_left' = 2]_vars
    /\ [](Acknowledging => p_rec # "alive")

\* C22's case: a session that began after an earlier one had made a capture:
\* the acknowledgment was spoken and the session is fresh.
C22_Witness ==
    /\ pc = "loop"
    /\ site = "ack"
    /\ calls = <<"tts", "play">>
    /\ p_rec = "reaped"
    /\ now >= awake_window_s
    /\ last_luna_cmd_ts = now
    /\ free_commands_left = 2

\* the collaborators a turn may call after the transcription
AfterAsrCalls == {"tts", "play", "store", "llm"}

\* C23: back at the top of the loop after a capture that returned False, or
\* after a transcript that is empty once stripped, the idle timer and the
\* free command counter are what they were when the turn began, and the turn
\* called neither the LLM nor the TTS, the playback or the store.
C23_NoSpeechOrEmptyChangesNothing ==
    (pc = "loop" /\ turn.out \in {"nospeech", "empty"}) =>
        /\ last_luna_cmd_ts = turn.last0
        /\ free_commands_left = turn.free0
        /\ Range(calls) \cap AfterAsrCalls = {}
        /\ turn.out = "nospeech" => calls = <<>>
        /\ turn.out = "empty" => calls = <<"asr">> /\ raw_text = <<>>

\* C23's case: in a session with one free command left and the idle timer
\* behind the clock, the transcript was blank and the turn is over.
C23_Witness ==
    /\ pc = "loop"
    /\ turn.out = "empty"
    /\ calls = <<"asr">>
    /\ free_commands_left = 1
    /\ last_luna_cmd_ts < now

\* C24: a transcript that contains "luna is listening" in any case is
\* rejected as the assistant's own speech: the idle timer and the free
\* command counter are what they were when the turn began, also when the
\* transcript starts with the wake phrase, and the transcription is the only
\* call of the turn.
C24_SelfSpeechRejectedFirst ==
    /\ (turn.out # "none" /\ Contains(LowerStr(raw_text), T_LunaIsListening)) =>
            turn.out = "self"
    /\ turn.out = "self" =>
            /\ Contains(LowerStr(raw_text), T_LunaIsListening)
            /\ pc \in {"loop", "sleeping", "waiting", "terminated", "crashed"}
            /\ last_luna_cmd_ts = turn.last0
            /\ free_commands_left = turn.free0
            /\ calls = <<"asr">>
            /\ stripped = <<>>

\* C24's case: with both free commands left and the idle timer behind the
\* clock, "Luna is listening." was transcribed, which starts with the wake
\* phrase, and the turn is over.
C24_Witness ==
    /\ pc = "loop"
    /\ turn.out = "self"
    /\ raw_text = T_SelfSpeech
    /\ turn.prefixed
    /\ free_commands_left = 2
    /\ last_luna_cmd_ts < now

\* C25: a turn that began with no free command left and whose transcript
\* does not start, in any case, with the wake phrase ends as empty, own
\* speech or discarded: the idle timer is what it was, the counter is still 0
\* and the transcription is the only call of the turn.
C25_UnprefixedDiscardedWhenNoFreeLeft ==
    (turn.out \notin {"none", "nospeech"} /\ turn.free0 = 0 /\ ~turn.prefixed) =>
        /\ turn.out \in {"empty", "self", "discarded"}
        /\ pc \in {"loop", "sleeping", "waiting", "terminated", "crashed"}
        /\ last_luna_cmd_ts = turn.last0
        /\ free_commands_left = 0
        /\ calls = <<"asr">>

\* C25's case: "what time is it" was transcribed with no free command left
\* and the turn is over.
C25_Witness ==
    /\ pc = "loop"
    /\ turn.out = "discarded"
    /\ turn.free0 = 0
    /\ ~turn.prefixed
    /\ raw_text = T_WhatTime
    /\ last_luna_cmd_ts < now

\* C26: after the session has started, the idle timer changes only in the
\* step that decides a turn, to the time of that step, and only when the
\* transcript starts with the wake phrase and the command text is not empty;
\* during and after a turn whose transcript does not start with the wake
\* phrase, and after a discarded turn, the timer is what it was when the turn
\* began, whatever was listed or spoken.
C26_OnlyPrefixedCommandsMoveTimer ==
    /\ [][(last_luna_cmd_ts' # last_luna_cmd_ts /\ ~(pc = "guard" /\ site = "ack")) =>
            /\ pc = "asr"
            /\ turn'.out = "command"
            /\ turn'.prefixed
            /\ stripped' # <<>>
            /\ last_luna_cmd_ts' = now']_vars
    /\ []((turn.out # "none" /\ ~turn.prefixed) => last_luna_cmd_ts = turn.last0)
    /\ [](turn.out = "discarded" => last_luna_cmd_ts = turn.last0)

\* C26's case: a command with the wake phrase moved the timer, the reply was
\* spoken and logged, and the timer is where the command put it, behind the
\* clock.
C26_Witness ==
    /\ pc = "loop"
    /\ site = "reply"
    /\ turn.out = "command"
    /\ turn.prefixed
    /\ turn.last0 < last_luna_cmd_ts
    /\ last_luna_cmd_ts < now

\* C27: a playback that ends is followed by the guard delay of speak(); no
\* capture starts during the delay; a capture starts only at the top of the
\* loop; and a turn that has played something comes back to the top of the
\* loop only through the delay (and, after a reply, the logging).
C27_GuardDelayAfterEverySpeech ==
    /\ [][pc = "play" => pc' \in {"play", "guard", "crashed"}]_vars
    /\ [][pc = "guard" => (pc' \in {"guard", "log", "loop"} /\ p_rec' = p_rec)]_vars
    /\ [][pc = "log" => (pc' \in {"log", "loop"} /\ p_rec' = p_rec)]_vars
    /\ [][(pc' = "log" /\ pc # "log") => pc = "guard"]_vars
    /\ [][(pc' = "loop" /\ pc # "loop" /\ "play" \in Range(calls')) =>
            pc \in {"guard", "log"}]_vars
    /\ [][(p_rec' = "alive" /\ p_rec # "alive") => pc = "loop"]_vars
    /\ [](pc \in {"synth", "play", "guard", "log"} => p_rec # "alive")

\* C27's case: "No memories stored yet." was spoken and the next capture has
\* begun.
C27_Witness ==
    /\ pc = "capturing"
    /\ p_rec = "alive"
    /\ site = "none_stored"
    /\ turn.free0 < 2

\* C28: the step that logs a turn always comes back to the top of the loop,
\* with no exception, the clock, the idle timer and the free command counter
\* as they were, whether the record could be built and stored or not; and
\* the construction of the assistant ends in the sleeping state whichever
\* warmups raised: it fails only where the configuration cannot be parsed.
C28_BestEffortFailuresSwallowed ==
    /\ [][pc = "log" =>
            /\ pc' \in {"log", "loop"}
            /\ error' = error
            /\ now' = now
            /\ last_luna_cmd_ts' = last_luna_cmd_ts
            /\ free_commands_left' = free_commands_left]_vars
    /\ [][(pc = "boot" /\ pc' # "boot") =>
            \/ pc' = "sleeping" /\ error' = "none" /\ warm_failed' \subseteq WarmupCalls
            \/ /\ pc' = "crashed" /\ error' = "ValueError"
               /\ ~ParseFloat(EnvOr(env_awake', T_Default8)).ok]_vars
    /\ []((pc = "loop" /\ turn.log \in {"TypeError", "StoreError"}) => error = "none")

\* C28's case: all three warmups raised, the assistant started, and in a
\* later turn the logging raised: the session goes on.
C28_Witness ==
    /\ pc = "loop"
    /\ warm_failed = WarmupCalls
    /\ turn.log \in {"TypeError", "StoreError"}
    /\ error = "none"
    /\ StillAwake(now, last_luna_cmd_ts, awake_window_s)

\* C29: back at the top of the loop after a turn on the LLM path in which
\* the store did not fail, the calls of the turn were the transcription, the
\* pinned context and the chat, the synthesis and the playback of the reply,
\* in this order, and the last row of the turn log is the turn's command.
C29_ExchangeLoggedAfterReply ==
    (pc = "loop" /\ site = "reply" /\ turn.out = "command" /\ turn.log # "none"
     /\ turn.log # "StoreError") =>
        /\ calls = <<"asr", "store", "llm", "tts", "play">>
        /\ turns # <<>>
        /\ turns[Len(turns)] = stripped

\* C33: the captured frames are consecutive frames of the stream, in the
\* order they arrived, and when there are any the last of them is the last
\* full frame read, which was read with speech started.
C33_CaptureIsContiguousRun ==
    /\ \A j \in 1..Len(captured) : captured[j] \in 1..Len(stream)
    /\ \A j \in 1..(Len(captured) - 1) : captured[j + 1] = captured[j] + 1
    /\ captured # <<>> => (speech_started /\ captured[Len(captured)] = Len(stream))

\* C33's case: a capture that began with the pre-roll, after a frame that was
\* left out, and went on frame by frame.
C33_Witness ==
    /\ seg_pc = "loop"
    /\ Len(captured) >= 3
    /\ captured[1] > 1
    /\ Len(stream) = MaxFrames

\* C34: the ring holds the last frames read since it was last emptied, at
\* most max(pre_roll_frames, 1) of them, oldest first; the step in which
\* speech starts moves the ring with the frame just read into the capture
\* and leaves the ring empty; and the capture is non-empty exactly when
\* speech has started.
C34_RingBoundedAndMovedAtStart ==
    /\ [](/\ Len(ring) <= Max(pre_roll_frames(cfg), 1)
          /\ \A j \in 1..Len(ring) : ring[j] = Len(stream) - Len(ring) + j
          /\ (captured # <<>>) <=> speech_started)
    /\ [][(Len(stream') = Len(stream) + 1 /\ ~speech_started') =>
            ring' = IF Len(ring) < Max(pre_roll_frames(cfg), 1)
                    THEN Append(ring, Len(stream'))
                    ELSE Append(Tail(ring), Len(stream'))]_vars
    /\ [][(~speech_started /\ speech_started') =>
            /\ ring' = <<>>
            /\ captured' # <<>>
            /\ captured'[Len(captured')] = Len(stream')
            /\ Len(captured') <= Max(pre_roll_frames(cfg), 1)]_vars

\* C34's case: with pre_roll_ms = 0 speech started after the ring had evicted
\* frames, and the capture holds the one frame that triggered the start.
C34_Witness ==
    /\ cfg.pre_roll_ms = 0
    /\ speech_started
    /\ ring = <<>>
    /\ captured = <<Len(stream)>>
    /\ Len(stream) >= 3

\* C35: speech_frames stays between 0 and start_trigger_frames and moves
\* only on frames read while waiting for speech, by +1 on a voiced frame and
\* by -1, not below 0, on an unvoiced one; silence_frames stays between 0
\* and end_trigger_frames and is 0 while speech has not started; and within
\* a call speech_started does not go back to false.
C35_CountersSaturate ==
    /\ [](/\ 0 <= speech_frames /\ speech_frames <= start_trigger_frames(cfg)
          /\ 0 <= silence_frames /\ silence_frames <= end_trigger_frames(cfg)
          /\ ~speech_started => silence_frames = 0)
    /\ [][(seg_pc = "loop" /\ speech_frames' # speech_frames) =>
            /\ ~speech_started
            /\ Len(stream') = Len(stream) + 1
            /\ speech_frames' = IF stream'[Len(stream')].v THEN speech_frames + 1
                                ELSE speech_frames - 1]_vars
    /\ [][(seg_pc = "loop" /\ ~speech_started /\ Len(stream') = Len(stream) + 1
           /\ ~stream'[Len(stream')].v /\ speech_frames = 0) =>
            speech_frames' = 0]_vars
    /\ [][(seg_pc = "loop" /\ speech_started) => speech_started']_vars

\* C35's case: while waiting for speech the counter went up, came down to 0
\* and stayed there on one more unvoiced frame.
C35_Witness ==
    /\ seg_pc = "loop"
    /\ ~speech_started
    /\ speech_frames = 0
    /\ Len(stream) >= 3
    /\ stream[1].v /\ ~stream[2].v /\ ~stream[3].v

\* C37: free_commands_left is 0, 1 or 2; it goes up only where a session
\* starts, after the acknowledgment; and a transcription whose text passes
\* the tests of the empty transcript and of the assistant's own speech takes
\* exactly one from it while it is positive, whether the text starts with
\* the wake phrase or not, whether the command is then discarded as empty
\* after the punctuation is stripped or goes to the memory listing or to the
\* LLM; a transcript stopped by one of the two tests leaves it alone.
C37_FreeCommandsCountDown ==
    /\ [](free_commands_left \in {0, 1, 2})
    /\ [][free_commands_left' > free_commands_left =>
            (pc = "guard" /\ site = "ack" /\ free_commands_left' = 2)]_vars
    /\ [][(pc = "asr" /\ turn'.out \in {"discarded", "command"}) =>
            free_commands_left' =
                IF free_commands_left > 0 THEN free_commands_left - 1 ELSE 0]_vars
    /\ [][(pc = "asr" /\ turn'.out \in {"empty", "self"}) =>
            free_commands_left' = free_commands_left]_vars

\* C37's case: the second utterance of a session is punctuation only; it is
\* discarded and the last free command is spent on it.
C37_Witness ==
    /\ pc = "loop"
    /\ turn.out = "discarded"
    /\ raw_text = T_Punct
    /\ turn.utt = 2
    /\ turn.free0 = 1
    /\ free_commands_left = 0

\* the turn in progress accepted a command that starts with the wake phrase
\* after the deadline it began under had passed
AcceptedPastDeadline ==
    /\ turn.out = "command"
    /\ starts_with_luna
    /\ last_luna_cmd_ts - turn.last0 >= awake_window_s

\* C38, as claimed: after a turn that accepted a wake-phrase command past the
\* deadline the session is not put to sleep.
C38_LateCommandKeepsAwake ==
    [][(pc = "loop" /\ AcceptedPastDeadline) => pc' # "sleeping"]_vars

\* C38, amended: a capture starts only from the loop test and only while
\* now - last_luna_cmd_ts < awake_window_s; the session is put to sleep only
\* by the loop test, never during a turn; a command that starts with the
\* wake phrase sets last_luna_cmd_ts to the time of its acceptance, also
\* past the deadline the turn began under; and at the loop test after such
\* a turn the session stays awake exactly when the LLM call and the reply's
\* speech took less than awake_window_s since that reset.
C38_DeadlineTestedBetweenTurns ==
    /\ [][(pc' = "capturing" /\ pc # "capturing") =>
            /\ pc = "loop"
            /\ now - last_luna_cmd_ts < awake_window_s
            /\ now' = now]_vars
    /\ [][(pc' = "sleeping" /\ pc \notin {"sleeping", "boot"}) =>
            /\ pc = "loop"
            /\ now - last_luna_cmd_ts >= awake_window_s]_vars
    /\ [][(pc = "asr" /\ turn'.out = "command" /\ starts_with_luna') =>
            last_luna_cmd_ts' = now']_vars
    /\ [][(pc = "loop" /\ AcceptedPastDeadline) =>
            (pc' = "sleeping" <=> now - last_luna_cmd_ts >= awake_window_s)]_vars

\* C38's case: a turn that began before the deadline accepted a wake-phrase
\* command after it, ran through the LLM and the speech, and the next capture
\* has been let through by the loop test.
C38_Witness ==
    /\ pc = "loop"
    /\ AcceptedPastDeadline
    /\ now > last_luna_cmd_ts
    /\ now - last_luna_cmd_ts < awake_window_s
    /\ "llm" \in Range(calls)

\* C39: once a read of the streaming detector has met the end of the
\* stream, the call stays in its loop: it neither returns nor raises, scores
\* no block, records no firing and leaves arecord as it is; the only steps
\* left to it are further reads of less than a block.
C39_ExhaustedSourceNeverWakes ==
    /\ [](wk_eof => (wk_pc = "listening" /\ wk_result = "none" /\ p_wake = "alive"))
    /\ [][wk_eof =>
            /\ wk_eof'
            /\ wk_pc' = "listening"
            /\ wk_score' = wk_score
            /\ fires' = fires
            /\ last_fire' = last_fire
            /\ wclock' = wclock
            /\ wk_short' = wk_short + 1]_vars

\* C39's case: the stream ended after a block had been scored, and the call
\* has re-read it again and again since.
C39_Witness ==
    /\ wk_pc = "listening"
    /\ wk_eof
    /\ wk_score >= 0
    /\ wk_short = MaxShortReads

(***************************************************************************)
(* Properties of MemoryStore (SpecStore)                                   *)
(***************************************************************************)
\* C30: a pinned row that is in the table before an operation and not after
\* it was deleted by unpin_memory or forget_memory called with its key;
\* upserts with their cap and prune_non_pinned with any limit leave every
\* pinned row in the table, under its id and key.
C30_PinnedRowsSurviveEviction ==
    [][\A r \in memories :
          (r.pinned /\ ~\E q \in memories' : q.id = r.id /\ q.k = r.k /\ q.pinned) =>
              (st_op'.op \in {"unpin", "forget"} /\ st_op'.key = r.k)]_vars

\* C30's case: an operation has just evicted rows for capacity while a pinned
\* row older than every other row stays in the table.
C30_Witness ==
    /\ st_op.op \in {"upsert", "prune"}
    /\ st_op.deleted > 0
    /\ \E r \in memories :
          /\ r.pinned
          /\ \E q \in memories : ~q.pinned
          /\ \A q \in memories : q # r => Newer(q, r)

C40_ReadEqualsUncachedQuery ==
    [][(st_reads' = st_reads + 1 /\ st_read'.limit >= 0) =>
          st_read'.rows = SelectPinned(memories, st_read'.limit)]_vars

\* While the cache is set it holds the rows the query gives on the table as
\* it is now, up to the limit of the call that filled it: every write that
\* changes the table has emptied it.
CacheHoldsCurrentRows ==
    pinned_cache.some =>
        \E limit \in ReadLimits : pinned_cache.rows = SelectPinned(memories, limit)

(***************************************************************************)
(* Properties of KnowledgeBase (SpecKb)                                    *)
(***************************************************************************)
\* C32, as claimed: every retrieve takes its scores over the rows that are
\* in table chunks at the time of the call.
C32_RetrieveSearchesStoredChunks ==
    [][(kb_ops' = kb_ops + 1 /\ kb_last'.op = "retrieve") =>
          kb_last'.searched = StoredRows(kb_chunks, kb_docs)]_vars

(***************************************************************************)
(* Properties of run() of luna_assistant/assistant.py (SpecSimple)         *)
(***************************************************************************)
\* C36, as claimed: the transcript that uses up first_command_free is
\* accepted as a command, so that one utterance of each wake cycle is
\* accepted without the test of the wake phrase.
C36_FreeSlotGoesToAcceptedUtterance ==
    [][(first_command_free /\ ~first_command_free') => turn'.out = "command"]_vars

\* C36, amended: the deadline is set only when the acknowledgment has been
\* played, to that time + 300 s, and no turn changes it; a capture starts
\* only while now < deadline and the session is put to sleep only by that
\* test; first_command_free is set only there as well, and the first
\* non-empty transcript of the cycle uses it up, accepted or not: it is
\* taken as it is, whatever it starts with, and discarded when nothing is
\* left after the punctuation; every later transcript is accepted only if
\* it starts with the wake phrase and is rejected otherwise.
C36_FixedWindowOneFreeSlot ==
    /\ [][deadline' # deadline =>
            /\ pc = "play" /\ site = "ack" /\ pc' = "loop"
            /\ deadline' = now' + 300]_vars
    /\ [][(pc' = "capturing" /\ pc # "capturing") => (pc = "loop" /\ now < deadline)]_vars
    /\ [][(pc' = "sleeping" /\ pc \notin {"sleeping", "boot"}) =>
            (pc = "loop" /\ now >= deadline)]_vars
    /\ [][(first_command_free' /\ ~first_command_free) =>
            (pc = "play" /\ site = "ack")]_vars
    /\ [][(pc = "asr" /\ pc' # "crashed") =>
            first_command_free' = (first_command_free /\ raw_text' = <<>>)]_vars
    /\ [][(pc = "asr" /\ pc' # "crashed" /\ first_command_free /\ raw_text' # <<>>) =>
            /\ stripped' = LStrip(raw_text', LeadingNoise)
            /\ turn'.out = IF stripped' = <<>> THEN "discarded" ELSE "command"]_vars
    /\ [][(pc = "asr" /\ pc' # "crashed" /\ ~first_command_free /\ raw_text' # <<>>) =>
            IF StartsWith(LowerStr(raw_text'), LowerStr(Strip(wake_phrase)))
            THEN turn'.out \in {"command", "rejected", "discarded"}
            ELSE turn'.out = "rejected" /\ pc' = "loop"]_vars

\* C36's case: in one wake cycle the free command went to a transcript of
\* punctuation only, a transcript without the wake phrase was rejected, and
\* a third one with the wake phrase is accepted, under the deadline the
\* cycle began with.
C36_Witness ==
    /\ pc = "chatting"
    /\ turn.out = "command"
    /\ turn.prefixed
    /\ turn.free0 = 0
    /\ turn.utt = 3
    /\ turn.np = 1
    /\ deadline = turn.last0
    /\ ~first_command_free

====
